---- MODULE Spec2Model ----
(***************************************************************************)
(* Vibe Navigator: the review store (places, reviews, vibe_summaries), the *)
(* HTTP handlers of main.py, the background scrape-and-store task and the  *)
(* summarizer of ai_summarizer.py.                                         *)
(*                                                                         *)
(* A text (a Python str) is the sequence of its code points, so that       *)
(* emptiness, equality, case folding, JSON encoding and JSON parsing are   *)
(* computed character by character.  None is the empty tuple and a present *)
(* optional value x is the one-element tuple <<x>>.                        *)
(***************************************************************************)
EXTENDS Integers, Sequences, FiniteSets, Bags

(***************************************************************************)
(* Bounds of the model.                                                    *)
(***************************************************************************)
\* places rows ever created
MaxPlaces == 1
\* background tasks ever enqueued
MaxTasks == 2
\* review texts one extractor call returns
MaxLen == 1
\* places rows of a store the query handlers are tried on
MaxRows == 2
\* locations the maps search finds
MaxUrls == 2
\* places rows of the store the scrape runs of SpecRuns work on
MaxRunPlaces == 2
\* review texts one extractor call returns in SpecRuns
MaxRunLen == 2

(***************************************************************************)
(* Optional values and Python truthiness of Optional[str].                 *)
(***************************************************************************)
None == <<>>

Some(x) == <<x>>

\* `if city:` / `if google_maps_url:` -- None and "" are both falsy
Truthy(opt) == opt /= None /\ opt[1] /= <<>>

(***************************************************************************)
(* Characters.  A character is its code point, 0 to 1114111; a surrogate   *)
(* that stands alone in a str is a code point like any other.  The texts   *)
(* of the source are written with TLA+ strings, one for a character; the   *)
(* characters the code tells apart are written as their code points:       *)
(*    9 tab        10 line feed    13 carriage return    32 space          *)
(*   34 "     37 %      43 +      44 ,      45 -      46 .      47 /       *)
(*   48 0     57 9      58 :      65 A      69 E      70 F      90 Z       *)
(*   91 [     92 \      93 ]      95 _      97 a      98 b     101 e       *)
(*  102 f    110 n     114 r     116 t     117 u     122 z    123 {  125 } *)
(***************************************************************************)
\* the characters from the space to the tilde in code order: Ascii[k] has
\* code 31 + k (the grave accent, which no TLA+ string holds, by its name)
Ascii ==
    <<" ","!","\"","#","$","%","&","'","(",")","*","+",",","-",".","/","0","1","2","3",
      "4","5","6","7","8","9",":",";","<","=",">","?","@","A","B","C","D","E","F","G",
      "H","I","J","K","L","M","N","O","P","Q","R","S","T","U","V","W","X","Y","Z","[",
      "\\","]","^","_","U+0060","a","b","c","d","e","f","g","h","i","j","k","l","m","n","o",
      "p","q","r","s","t","u","v","w","x","y","z","{","|","}","~">>

\* ord(c) of a character written as a TLA+ string
Ord(c) ==
    CASE c = "\t" -> 9
      [] c = "\n" -> 10
      [] c = "\f" -> 12
      [] c = "\r" -> 13
      [] OTHER -> 31 + (CHOOSE k \in 1..Len(Ascii) : Ascii[k] = c)

\* the str with the given characters
Text(chars) == [k \in 1..Len(chars) |-> Ord(chars[k])] \o <<>>

\* a decimal digit
IsDigit(c) == c >= 48 /\ c <= 57

\* a hexadecimal digit
IsHex(c) ==
    \/ IsDigit(c)
    \/ c >= 97 /\ c <= 102
    \/ c >= 65 /\ c <= 70

\* the value of a hexadecimal digit
HexValue(c) ==
    IF IsDigit(c) THEN c - 48
    ELSE IF c >= 97 THEN c - 97 + 10
    ELSE c - 65 + 10

\* '{0:04x}'.format(n)
Hex4(n) ==
    LET Digit(v) == IF v < 10 THEN 48 + v ELSE 97 + v - 10
    IN  << Digit((n \div 4096) % 16), Digit((n \div 256) % 16),
           Digit((n \div 16) % 16), Digit(n % 16) >>

(***************************************************************************)
(* String constants of the source.                                         *)
(***************************************************************************)
\* "summary"
KeySummary == Text(<<"s","u","m","m","a","r","y">>)

\* "mood_tags"
KeyMoodTags == Text(<<"m","o","o","d","_","t","a","g","s">>)

\* "key_themes"
KeyKeyThemes == Text(<<"k","e","y","_","t","h","e","m","e","s">>)

\* "AI Summarizer is not configured. Missing API Key."
MissingKeySummary ==
    Text(<<"A","I"," ","S","u","m","m","a","r","i","z","e","r"," ","i","s"," ","n","o","t"," ","c",
      "o","n","f","i","g","u","r","e","d","."," ","M","i","s","s","i","n","g"," ","A","P","I",
      " ","K","e","y",".">>)

\* "An error occurred while generating the AI summary: "
ApiErrorPrefix ==
    Text(<<"A","n"," ","e","r","r","o","r"," ","o","c","c","u","r","r","e","d"," ","w","h","i","l",
      "e"," ","g","e","n","e","r","a","t","i","n","g"," ","t","h","e"," ","A","I"," ","s","u",
      "m","m","a","r","y",":"," ">>)

\* "No summary provided."
DefaultSummary ==
    Text(<<"N","o"," ","s","u","m","m","a","r","y"," ","p","r","o","v","i","d","e","d",".">>)

\* "error"
TagError == Text(<<"e","r","r","o","r">>)

\* "configuration"
ThemeConfiguration == Text(<<"c","o","n","f","i","g","u","r","a","t","i","o","n">>)

\* "api_failure"
ThemeApiFailure == Text(<<"a","p","i","_","f","a","i","l","u","r","e">>)

\* 'Google Maps'
SourceGoogle == Text(<<"G","o","o","g","l","e"," ","M","a","p","s">>)

\* 'TripAdvisor'
SourceTripAdvisor == Text(<<"T","r","i","p","A","d","v","i","s","o","r">>)

(***************************************************************************)
(* JSON values: what json.loads returns and json.dumps takes.              *)
(* A value is a pair <<tag, payload>>:                                     *)
(*   <<"str",  text>>                                                      *)
(*   <<"list", <<value, ...>>>>                                            *)
(*   <<"obj",  <<<<key, value>>, ...>>>>  (a dict, in insertion order,     *)
(*                                         keys distinct)                  *)
(*   <<"null", <<>>>>                                                      *)
(*   <<"bool", text>>   text is true or false                              *)
(*   <<"num",  text>>   an int or float, as the literal it was read from   *)
(*                      (NaN, Infinity and -Infinity included): NumText    *)
(*                      is its repr, Float its value                       *)
(***************************************************************************)
JStr(s) == <<"str", s>>

JList(l) == <<"list", l>>

JObj(members) == <<"obj", members>>

JNull == <<"null", <<>>>>

JBool(s) == <<"bool", s>>

JNum(s) == <<"num", s>>

Tag(val) == val[1]

Payload(val) == val[2]

\* a Python list of str as a JSON value
JStrList(texts) == JList([i \in 1..Len(texts) |-> JStr(texts[i])])

\* the literals of the constants
LitTrue == Text(<<"t","r","u","e">>)

LitFalse == Text(<<"f","a","l","s","e">>)

LitNull == Text(<<"n","u","l","l">>)

LitNaN == Text(<<"N","a","N">>)

LitInfinity == Text(<<"I","n","f","i","n","i","t","y">>)

LitMinusInfinity == <<45>> \o LitInfinity

\* the number literal is an int: no fraction, no exponent, not a constant
IsInt(lexeme) == \A k \in 1..Len(lexeme) : IsDigit(lexeme[k]) \/ lexeme[k] = 45

(***************************************************************************)
(* Numbers.  float(literal), float.__repr__ and SQLite's rendering of a    *)
(* REAL are computed exactly: a natural number is the sequence of its      *)
(* limbs (base 1000, least significant first, no zero limb at the top, so  *)
(* zero is the empty sequence), a double is m * 2^e with m below 2^53.     *)
(***************************************************************************)
\* The operators of this section are defined together: each is an arm of
\* Arith, selected by its name, and takes its arguments as a tuple.
RECURSIVE Arith(_, _)

\* the sum of the values of a function to the naturals
Sum(f) == BagCardinality([i \in {j \in DOMAIN f : f[j] > 0} |-> f[i]])

\* one carry pass: every limb keeps its three low digits and hands the rest
\* to the next limb
BigCarry(v) == Arith("BigCarry", <<v>>)

\* limbs of at most 1000 each: the carries that are left ripple upwards
BigRipple(v) == Arith("BigRipple", <<v>>)

\* the zero limbs at the top dropped
BigTrim(v) == Arith("BigTrim", <<v>>)

\* the limbs of the number whose limbs, not yet carried, are v
BigNorm(v) == Arith("BigNorm", <<v>>)

BigMul(a, b) == Arith("BigMul", <<a, b>>)

BigAdd(a, b) == Arith("BigAdd", <<a, b>>)

\* a <= b
BigLe(a, b) == Arith("BigLe", <<a, b>>)

\* b ** k for a natural b below 1000, by squaring
BigPow(b, k) == Arith("BigPow", <<b, k>>)

\* the limbs of the number with the decimal digits d (most significant first)
Limbs(d) == Arith("Limbs", <<d>>)

\* the decimal digits of a number given by its limbs, no leading zero
DigitsOf(v) == Arith("DigitsOf", <<v>>)

\* the least member of a set of indices, 0 for the empty set
FirstIndex(S) == IF S = {} THEN 0 ELSE CHOOSE j \in S : \A k \in S : j <= k

\* n zeros
Zeros(n) == [i \in 1..n |-> 0] \o <<>>

\* the digits d without the zeros at their end
StripZeros(d) == Arith("StripZeros", <<d>>)

\* the number a run of decimal digits writes, 10**7 for every number from
\* 10**7 on
Natural(d) == Arith("Natural", <<d>>)

\* the number literal as a decimal: its sign, its significant digits (no
\* zero at either end; none at all for zero) and the power of ten decpt with
\* value = 0.digits * 10**decpt.  The literal is cut at its point (dot) and
\* its exponent mark (ex); nint digits stand before the point.
Decimal(lexeme) == Arith("Decimal", <<lexeme>>)

\* 2**52 and 2**53
TwoTo52 == Limbs(<<4,5,0,3,5,9,9,6,2,7,3,7,0,4,9,6>>)

TwoTo53 == Limbs(<<9,0,0,7,1,9,9,2,5,4,7,4,0,9,9,2>>)

\* a - b for a >= b
BigSub(a, b) == Arith("BigSub", <<a, b>>)

\* floor(num / den) below 1000^t, found limb by limb from the top and digit
\* by digit within a limb; acc holds the limbs found so far
Quotient(num, den, t, acc) == Arith("Quotient", <<num, den, t, acc>>)

\* num / den (below 1000^7) rounded to the nearest natural, a tie to the
\* even one
Nearest(num, den) == Arith("Nearest", <<num, den>>)

\* floor(log2(num / den)) for num > 0
Log2(num, den) == Arith("Log2", <<num, den>>)

\* num / den > 0 rounded to a binary floating-point value m * 2^e with a
\* significand of at most `bits` bits and e >= emin: round to nearest, ties
\* to even
Rounded(num, den, bits, emin) == Arith("Rounded", <<num, den, bits, emin>>)

\* float(literal) for the decimal 0.digits * 10^decpt: the nearest IEEE 754
\* double, zero below half the least subnormal, inf from 2^1024 on
NearestDouble(digits, decpt) == Arith("NearestDouble", <<digits, decpt>>)

\* the digits d with one added at the last place, as [digits, carry]:
\* carry is 1 when every digit was 9
Increment(d) == Arith("Increment", <<d>>)

\* the first k digits of a decimal [digits, decpt], rounded up or cut
RoundTo(digits, decpt, k, up) == Arith("RoundTo", <<digits, decpt, k, up>>)

\* the exact decimal digits of m * 2**e, the unit one step of m is worth at
\* the scale of those digits, and decpt
Expansion(m, e, unit) == Arith("Expansion", <<m, e, unit>>)

\* repr(x) of the double m * 2**e: the shortest decimal that float() reads
\* back as x, the closest to x of that length
Shortest(m, e, x) == Arith("Shortest", <<m, e, x>>)

\* PowersOfTwo[k + 1] is 2^k and PowersOfFive[k + 1] is 5^k
PowersOfTwo == [k \in 1..141 |-> BigPow(2, k - 1)] \o <<>>

PowersOfFive == [k \in 1..81 |-> BigPow(5, k - 1)] \o <<>>

\* the number of bits of a natural below 2^140
BitLength(m) == Arith("BitLength", <<m>>)

\* A long double (x87 extended precision) is [m, e], the value m * 2^e with
\* m below 2^64.  Extended(m, e) is the long double nearest to m * 2^e, a
\* tie to the even one: m / 2^s for the s bits too many is read off the
\* decimal digits of m * 5^s, whose last s digits are its fraction.
Extended(m, e) == Arith("Extended", <<m, e>>)

\* a * b of a long double and a double
Times(a, b) == Arith("Times", <<a, b>>)

\* a >= b
AtLeast(a, b) == Arith("AtLeast", <<a, b>>)

\* the value x * 2^e, not rounded
Moved(x, e) == [m |-> x.m, e |-> x.e + e]

\* the double a decimal literal of the C source denotes
Double(digits, decpt) == Arith("Double", <<digits, decpt>>)

\* a * b of two doubles, rounded to a double
DoubleTimes(a, b) == Arith("DoubleTimes", <<a, b>>)

\* the floating-point constants of the etGENERIC case of SQLite's
\* sqlite3_str_vappendf; rounder is the double arRound[4] * 1.0e-10, for
\* the 14 digits after the first
Real ==
    [one |-> Double(<<1>>, 1), ten |-> Double(<<1>>, 2), tenth |-> Double(<<1>>, 0),
     e8 |-> Double(<<1>>, 9), em8 |-> Double(<<1>>, 0 - 7),
     e10 |-> Double(<<1>>, 11), e100 |-> Double(<<1>>, 101),
     rounder |-> DoubleTimes(Double(<<5>>, 0 - 4), Double(<<1>>, 0 - 9))]

\* while( realvalue>=factor*scale && exp<=350 ){ scale *= factor; exp+=step; }
Scaled(realvalue, s, factor, step) == Arith("Scaled", <<realvalue, s, factor, step>>)

\* at most `turns` turns of
\* while( realvalue<limit ){ realvalue *= factor; exp-=step; }
Raised(r, limit, factor, step, turns) == Arith("Raised", <<r, limit, factor, step, turns>>)

\* one call of et_getdigit: digit = (int)*val; *val = (*val - digit)*10.0
GetDigit(s) == Arith("GetDigit", <<s>>)

\* sqlite3_snprintf("%!.15g", x) for a finite double x > 0, up to the
\* digits: realvalue is brought into 1.0 <= realvalue < 10.0 by dividing it
\* by a power of ten (scale) or multiplying it by powers of ten, every step
\* rounded to a long double; the rounder is added and fifteen digits are
\* taken.  A double below 1e-8 takes at most 41 turns of the first
\* multiplying loop, run here in stretches of ten.
Fifteen(x) == Arith("Fifteen", <<x>>)

\* float(literal): the double the literal is read as.  For a literal of at
\* most 15 significant digits within the range of the normal doubles, the
\* shortest decimal that reads back as its double and the first 15 digits
\* of that double are the literal's own digits (kind "decimal"); any other
\* literal goes through its double.
Float(lexeme) == Arith("Float", <<lexeme>>)

\* the digits float.__repr__ writes for a finite float
ReprDigits(f) == Arith("ReprDigits", <<f>>)

\* the digits SQLite writes for a finite float
ColumnDigits(f) == Arith("ColumnDigits", <<f>>)

\* the exponent of a float in exponent form: a sign and two digits or more
ExponentText(x) == Arith("ExponentText", <<x>>)

\* the digits of a decimal written with its point: d.ddd when decpt is 1
Pointed(digits, decpt) == Arith("Pointed", <<digits, decpt>>)

\* float.__repr__ of the decimal d: positional from 1e-4 up to 1e16, else
\* d[.ddd]e+XX
ReprForm(d) == Arith("ReprForm", <<d>>)

\* SQLite's %!.15g of the decimal d: positional from 1e-4 up to 1e15, else
\* d.ddde+XX with a digit after the point in every case
ColumnForm(d) == Arith("ColumnForm", <<d>>)

\* json.dumps of a float: float.__repr__, with Infinity for inf
ReprText(f) == Arith("ReprText", <<f>>)

\* the text SQLite stores for a REAL in a TEXT column: 0.0 for either zero,
\* Inf for inf
ColumnText(f) == Arith("ColumnText", <<f>>)

\* repr of the number read from a literal: of the int (int("-0") is 0), of
\* nan, or of the float
NumText(lexeme) == Arith("NumText", <<lexeme>>)

Arith(op, args) ==
    CASE op = "BigCarry" ->
            LET Def(v) ==
                [k \in 1..(Len(v) + 1) |->
                    (IF k <= Len(v) THEN v[k] % 1000 ELSE 0)
                    + (IF k > 1 THEN v[k - 1] \div 1000 ELSE 0)] \o <<>>
            IN  Def(args[1])
      [] op = "BigRipple" ->
            LET Def(v) ==
                LET CarryIn(k) ==
                        /\ k > 1
                        /\ \/ v[k - 1] = 1000
                           \/ /\ v[k - 1] = 999
                              /\ \E j \in 1..(k - 2) :
                                    v[j] = 1000 /\ \A i \in (j + 1)..(k - 2) : v[i] = 999
                IN  [k \in 1..Len(v) |-> (v[k] + (IF CarryIn(k) THEN 1 ELSE 0)) % 1000] \o <<>>
            IN  Def(args[1])
      [] op = "BigTrim" ->
            LET Def(v) ==
                SubSeq(v, 1, Len(v) - (CHOOSE z \in 0..Len(v) :
                                          /\ \A i \in (Len(v) - z + 1)..Len(v) : v[i] = 0
                                          /\ z = Len(v) \/ v[Len(v) - z] /= 0))
            IN  Def(args[1])
      [] op = "BigNorm" ->
            LET Def(v) ==
                    BigTrim(BigRipple(BigCarry(BigCarry(BigCarry(BigCarry(v))))))
            IN  Def(args[1])
      [] op = "BigMul" ->
            LET Def(a, b) ==
                IF a = <<>> \/ b = <<>> THEN <<>>
                ELSE BigNorm([k \in 1..(Len(a) + Len(b) - 1) |->
                                Sum([i \in (IF k + 1 - Len(b) > 1 THEN k + 1 - Len(b) ELSE 1)
                                           ..(IF k < Len(a) THEN k ELSE Len(a)) |->
                                        a[i] * b[k + 1 - i]])])
            IN  Def(args[1], args[2])
      [] op = "BigAdd" ->
            LET Def(a, b) ==
                BigNorm([k \in 1..(IF Len(a) > Len(b) THEN Len(a) ELSE Len(b)) |->
                            (IF k <= Len(a) THEN a[k] ELSE 0) + (IF k <= Len(b) THEN b[k] ELSE 0)])
            IN  Def(args[1], args[2])
      [] op = "BigLe" ->
            LET Def(a, b) ==
                IF Len(a) /= Len(b) THEN Len(a) < Len(b)
                ELSE \/ a = b
                     \/ \E k \in 1..Len(a) :
                           a[k] < b[k] /\ \A i \in (k + 1)..Len(a) : a[i] = b[i]
            IN  Def(args[1], args[2])
      [] op = "BigPow" ->
            LET Def(b, k) ==
                LET Step(h) == IF k % 2 = 1 THEN BigMul(BigMul(h, h), <<b>>) ELSE BigMul(h, h)
                IN  IF k = 0 THEN <<1>> ELSE Step(BigPow(b, k \div 2))
            IN  Def(args[1], args[2])
      [] op = "Limbs" ->
            LET Def(d) ==
                LET At(j) == IF j >= 1 THEN d[j] ELSE 0
                IN  BigTrim([k \in 1..((Len(d) + 2) \div 3) |->
                                At(Len(d) - 3 * k + 3) + 10 * At(Len(d) - 3 * k + 2)
                                + 100 * At(Len(d) - 3 * k + 1)])
            IN  Def(args[1])
      [] op = "DigitsOf" ->
            LET Def(v) ==
                LET Raw(j) ==
                        LET limb == v[Len(v) - ((j - 1) \div 3)]
                        IN  CASE (j - 1) % 3 = 0 -> limb \div 100
                              [] (j - 1) % 3 = 1 -> (limb \div 10) % 10
                              [] OTHER -> limb % 10
                    z == IF v = <<>> THEN 0
                         ELSE IF v[Len(v)] >= 100 THEN 0 ELSE IF v[Len(v)] >= 10 THEN 1 ELSE 2
                IN  [j \in 1..(3 * Len(v) - z) |-> Raw(j + z)] \o <<>>
            IN  Def(args[1])
      [] op = "StripZeros" ->
            LET Def(d) ==
                SubSeq(d, 1, Len(d) + 1 - FirstIndex({Len(d) + 1 - k : k \in {j \in 1..Len(d) : d[j] /= 0}}))
            IN  Def(args[1])
      [] op = "Natural" ->
            LET Def(d) ==
                LET f == FirstIndex({k \in 1..Len(d) : d[k] /= 0})
                    Place(k) == <<1, 10, 100, 1000, 10000, 100000, 1000000>>[Len(d) - k + 1]
                IN  IF f = 0 THEN 0
                    ELSE IF Len(d) - f + 1 > 7 THEN 10000000
                    ELSE Sum([k \in f..Len(d) |-> d[k] * Place(k)])
            IN  Def(args[1])
      [] op = "Decimal" ->
            LET Def(lexeme) ==
                LET Result(nint, exp, mant, f) ==
                        [neg |-> lexeme[1] = 45,
                         digits |-> IF f = 0 THEN <<>> ELSE StripZeros(SubSeq(mant, f, Len(mant))),
                         decpt |-> IF f = 0 THEN 0 ELSE nint - (f - 1) + exp]
                    Mantissa(nint, exp, mant) ==
                        Result(nint, exp, mant, FirstIndex({k \in 1..Len(mant) : mant[k] /= 0}))
                    Exponent(ex, signed) ==
                        IF ex = 0 THEN 0
                        ELSE (IF lexeme[ex + 1] = 45 THEN 0 - 1 ELSE 1)
                             * Natural([j \in 1..(Len(lexeme) - ex - signed) |->
                                           lexeme[ex + signed + j] - 48] \o <<>>)
                    Digits(first, dot, last, nint, exp) ==
                        Mantissa(nint, exp,
                                 [j \in 1..(last - first + 1 - (IF dot = 0 THEN 0 ELSE 1)) |->
                                     lexeme[IF j <= nint THEN first + j - 1 ELSE first + j] - 48]
                                 \o <<>>)
                    Whole(first, dot, ex, last) ==
                        Digits(first, dot, last, (IF dot = 0 THEN last ELSE dot - 1) - first + 1,
                               Exponent(ex, IF ex /= 0 /\ lexeme[ex + 1] \in {43, 45} THEN 1 ELSE 0))
                    Marks(first, dot, ex) == Whole(first, dot, ex, IF ex = 0 THEN Len(lexeme) ELSE ex - 1)
                IN  Marks(IF lexeme[1] = 45 THEN 2 ELSE 1,
                          FirstIndex({k \in 1..Len(lexeme) : lexeme[k] = 46}),
                          FirstIndex({k \in 1..Len(lexeme) : lexeme[k] \in {101, 69}}))
            IN  Def(args[1])
      [] op = "BigSub" ->
            LET Def(a, b) ==
                LET Raw(k) == a[k] - (IF k <= Len(b) THEN b[k] ELSE 0)
                    Borrow(k) == \E j \in 1..(k - 1) : Raw(j) < 0 /\ \A i \in (j + 1)..(k - 1) : Raw(i) <= 0
                IN  BigTrim([k \in 1..Len(a) |-> (Raw(k) - (IF Borrow(k) THEN 1 ELSE 0) + 1000) % 1000] \o <<>>)
            IN  Def(args[1], args[2])
      [] op = "Quotient" ->
            LET Def(num, den, t, acc) ==
                LET Fits(q) == BigLe(BigMul(den, BigTrim([acc EXCEPT ![t] = q])), num)
                    Pick(base, step) ==
                        base + step * (CHOOSE d \in 0..9 :
                                          /\ Fits(base + step * d)
                                          /\ d = 9 \/ ~Fits(base + step * (d + 1)))
                IN  IF t = 0 THEN BigTrim(acc)
                    ELSE Quotient(num, den, t - 1, [acc EXCEPT ![t] = Pick(Pick(Pick(0, 100), 10), 1)])
            IN  Def(args[1], args[2], args[3], args[4])
      [] op = "Nearest" ->
            LET Def(num, den) ==
                LET Round(floor) ==
                        IF /\ BigLe(BigMul(num, <<2>>), BigMul(den, BigAdd(BigMul(floor, <<2>>), <<1>>)))
                           /\ \/ BigMul(num, <<2>>) /= BigMul(den, BigAdd(BigMul(floor, <<2>>), <<1>>))
                              \/ floor = <<>>
                              \/ floor[1] % 2 = 0
                        THEN floor ELSE BigAdd(floor, <<1>>)
                IN  Round(Quotient(num, den, 7, Zeros(7)))
            IN  Def(args[1], args[2])
      [] op = "Log2" ->
            LET Def(num, den) ==
                LET Reaches(c) == IF c >= 0 THEN BigLe(BigMul(den, BigPow(2, c)), num)
                                  ELSE BigLe(den, BigMul(num, BigPow(2, 0 - c)))
                    guess == ((Len(DigitsOf(num)) - Len(DigitsOf(den))) * 33219) \div 10000
                IN  CHOOSE c \in (guess - 5)..(guess + 5) : Reaches(c) /\ ~Reaches(c + 1)
            IN  Def(args[1], args[2])
      [] op = "Rounded" ->
            LET Def(num, den, bits, emin) ==
                LET At(e) ==
                        [m |-> IF e >= 0 THEN Nearest(num, BigMul(den, BigPow(2, e)))
                               ELSE Nearest(BigMul(num, BigPow(2, 0 - e)), den),
                         e |-> e]
                    Floor(b) == IF b - (bits - 1) < emin THEN emin ELSE b - (bits - 1)
                IN  At(Floor(Log2(num, den)))
            IN  Def(args[1], args[2], args[3], args[4])
      [] op = "NearestDouble" ->
            LET Def(digits, decpt) ==
                LET q == decpt - Len(digits)
                    Near(x) == IF x.m = <<>> THEN [kind |-> "zero", m |-> <<>>, e |-> 0]
                               ELSE IF x.e > 971 \/ (x.e = 971 /\ x.m = TwoTo53)
                                    THEN [kind |-> "inf", m |-> <<>>, e |-> 0]
                               ELSE IF x.m = TwoTo53 THEN [kind |-> "finite", m |-> TwoTo52, e |-> x.e + 1]
                               ELSE [kind |-> "finite", m |-> x.m, e |-> x.e]
                IN  IF digits = <<>> \/ decpt < 0 - 330 THEN [kind |-> "zero", m |-> <<>>, e |-> 0]
                    ELSE IF decpt > 310 THEN [kind |-> "inf", m |-> <<>>, e |-> 0]
                    ELSE Near(Rounded(IF q >= 0 THEN Limbs(digits \o Zeros(q)) ELSE Limbs(digits),
                                      IF q >= 0 THEN <<1>> ELSE Limbs(<<1>> \o Zeros(0 - q)),
                                      53, 0 - 1074))
            IN  Def(args[1], args[2])
      [] op = "Increment" ->
            LET Def(d) ==
                LET keep == Len(d) + 1 - FirstIndex({Len(d) + 1 - k : k \in {j \in 1..Len(d) : d[j] /= 9}})
                IN  IF keep > Len(d) THEN [digits |-> <<1>>, carry |-> 1]
                    ELSE [digits |-> SubSeq(d, 1, keep - 1) \o <<d[keep] + 1>>, carry |-> 0]
            IN  Def(args[1])
      [] op = "RoundTo" ->
            LET Def(digits, decpt, k, up) ==
                IF up THEN [digits |-> Increment(SubSeq(digits, 1, k)).digits,
                            decpt |-> decpt + Increment(SubSeq(digits, 1, k)).carry]
                ELSE [digits |-> StripZeros(SubSeq(digits, 1, k)), decpt |-> decpt]
            IN  Def(args[1], args[2], args[3], args[4])
      [] op = "Expansion" ->
            LET Def(m, e, unit) ==
                [digits |-> DigitsOf(BigMul(m, unit)), unit |-> unit,
                 decpt |-> Len(DigitsOf(BigMul(m, unit))) + (IF e >= 0 THEN 0 ELSE e)]
            IN  Def(args[1], args[2], args[3])
      [] op = "Shortest" ->
            LET Def(m, e, x) ==
                LET L == Len(x.digits)
                    sig == Len(StripZeros(x.digits))
                    narrow == m = TwoTo52 /\ e > 0 - 1074
                    even == m[1] % 2 = 0
                    Rest(k) == Limbs(SubSeq(x.digits, k + 1, L))
                    Step(k) == Limbs(<<1>> \o Zeros(L - k))
                    Within(a, b) == IF even THEN BigLe(a, b) ELSE ~BigLe(b, a)
                    Down(k) == Within(BigMul(Rest(k), <<IF narrow THEN 4 ELSE 2>>), x.unit)
                    Up(k) == Within(BigMul(Step(k), <<2>>), BigAdd(x.unit, BigMul(Rest(k), <<2>>)))
                    Ok(k) == k >= sig \/ Down(k) \/ Up(k)
                    Pick(k) ==
                        IF k >= sig THEN RoundTo(x.digits, x.decpt, sig, FALSE)
                        ELSE IF ~Up(k) THEN RoundTo(x.digits, x.decpt, k, FALSE)
                        ELSE IF ~Down(k) THEN RoundTo(x.digits, x.decpt, k, TRUE)
                        ELSE IF BigMul(Rest(k), <<2>>) = Step(k)
                             THEN RoundTo(x.digits, x.decpt, k, x.digits[k] % 2 = 1)
                        ELSE RoundTo(x.digits, x.decpt, k, ~BigLe(BigMul(Rest(k), <<2>>), Step(k)))
                IN  Pick(CHOOSE k \in 1..17 : Ok(k) /\ \A j \in 1..(k - 1) : ~Ok(j))
            IN  Def(args[1], args[2], args[3])
      [] op = "BitLength" ->
            LET Def(m) ==
                IF m = <<>> THEN 0
                ELSE CHOOSE k \in (9 * Len(m) - 8)..(10 * Len(m)) :
                        BigLe(PowersOfTwo[k], m) /\ ~BigLe(PowersOfTwo[k + 1], m)
            IN  Def(args[1])
      [] op = "Extended" ->
            LET Def(m, e) ==
                LET Cut(d, s, whole) ==
                        LET half == d[Len(d) - s + 1] = 5 /\ \A j \in (Len(d) - s + 2)..Len(d) : d[j] = 0
                            up == d[Len(d) - s + 1] >= 5 /\ (~half \/ whole[1] % 2 = 1)
                        IN  [m |-> IF up THEN BigAdd(whole, <<1>>) ELSE whole, e |-> e + s]
                    Digits(d, s) == Cut(d, s, Limbs(SubSeq(d, 1, Len(d) - s)))
                    Shift(s) ==
                        IF s <= 0 THEN [m |-> m, e |-> e]
                        ELSE Digits(DigitsOf(BigMul(m, PowersOfFive[s + 1])), s)
                IN  Shift(BitLength(m) - 64)
            IN  Def(args[1], args[2])
      [] op = "Times" ->
            LET Def(a, b) ==
                    Extended(BigMul(a.m, b.m), a.e + b.e)
            IN  Def(args[1], args[2])
      [] op = "AtLeast" ->
            LET Def(a, b) ==
                LET Aligned(least) ==
                        BigLe(BigMul(b.m, PowersOfTwo[b.e - least + 1]),
                              BigMul(a.m, PowersOfTwo[a.e - least + 1]))
                IN  IF BitLength(a.m) + a.e /= BitLength(b.m) + b.e
                    THEN BitLength(a.m) + a.e > BitLength(b.m) + b.e
                    ELSE Aligned(IF a.e < b.e THEN a.e ELSE b.e)
            IN  Def(args[1], args[2])
      [] op = "Double" ->
            LET Def(digits, decpt) ==
                    Moved(NearestDouble(digits, decpt), 0)
            IN  Def(args[1], args[2])
      [] op = "DoubleTimes" ->
            LET Def(a, b) ==
                    Moved(Rounded(BigMul(a.m, b.m), <<1>>, 53, 0 - 1074), a.e + b.e)
            IN  Def(args[1], args[2])
      [] op = "Scaled" ->
            LET Def(realvalue, s, factor, step) ==
                IF s.exp <= 350 /\ AtLeast(realvalue, Times(s.scale, factor))
                THEN Scaled(realvalue, [scale |-> Times(s.scale, factor), exp |-> s.exp + step],
                            factor, step)
                ELSE s
            IN  Def(args[1], args[2], args[3], args[4])
      [] op = "Raised" ->
            LET Def(r, limit, factor, step, turns) ==
                IF turns > 0 /\ ~AtLeast(r.realvalue, limit)
                THEN Raised([realvalue |-> Times(r.realvalue, factor), exp |-> r.exp - step],
                            limit, factor, step, turns - 1)
                ELSE r
            IN  Def(args[1], args[2], args[3], args[4], args[5])
      [] op = "GetDigit" ->
            LET Def(s) ==
                LET Digit(val, unit) ==
                        CHOOSE d \in 0..9 :
                            /\ BigLe(BigMul(Limbs(<<d>>), unit), val.m)
                            /\ ~BigLe(BigMul(Limbs(<<d + 1>>), unit), val.m)
                    Rest(val, unit, digit) ==
                        [val |-> Extended(BigMul(BigSub(val.m, BigMul(Limbs(<<digit>>), unit)), <<10>>), val.e),
                         digits |-> Append(s.digits, digit)]
                    Take(val, unit) == Rest(val, unit, Digit(val, unit))
                IN  IF s.val.m = <<>> THEN [val |-> s.val, digits |-> Append(s.digits, 0)]
                    ELSE Take(s.val, PowersOfTwo[1 - s.val.e])
            IN  Def(args[1])
      [] op = "Fifteen" ->
            LET Def(x) ==
                LET Start(v) ==
                        Scaled(v, Scaled(v, Scaled(v, [scale |-> Real.one, exp |-> 0], Real.e100, 100),
                                         Real.e10, 10),
                               Real.ten, 1)
                    Divided(v, s) ==
                        [exp |-> s.exp,
                         realvalue |-> Moved(Rounded(v.m, s.scale.m, 64, 0 - 20000), v.e - s.scale.e)]
                    Stretch(r) == Raised(r, Real.em8, Real.e8, 8, 10)
                    Normal(r) ==
                        Raised(Stretch(Stretch(Stretch(Stretch(Stretch(r))))), Real.one, Real.ten, 1, 10)
                    Plus(a, b, least) ==
                        Extended(BigAdd(BigMul(a.m, PowersOfTwo[a.e - least + 1]),
                                        BigMul(b.m, PowersOfTwo[b.e - least + 1])),
                                 least)
                    Bumped(r) ==
                        IF AtLeast(r.realvalue, Real.ten)
                        THEN [exp |-> r.exp + 1, realvalue |-> Times(r.realvalue, Real.tenth)]
                        ELSE r
                    Rounder(r) ==
                        Bumped([exp |-> r.exp,
                                realvalue |-> Plus(r.realvalue, Real.rounder,
                                                   IF r.realvalue.e < Real.rounder.e THEN r.realvalue.e
                                                   ELSE Real.rounder.e)])
                    Five(s) == GetDigit(GetDigit(GetDigit(GetDigit(GetDigit(s)))))
                    Taken(r) ==
                        [decpt |-> r.exp + 1,
                         digits |-> StripZeros(Five(Five(Five([val |-> r.realvalue, digits |-> <<>>]))).digits)]
                IN  Taken(Rounder(Normal(Divided([m |-> x.m, e |-> x.e], Start([m |-> x.m, e |-> x.e])))))
            IN  Def(args[1])
      [] op = "Float" ->
            LET Def(lexeme) ==
                LET Of(neg, x) ==
                        [neg |-> neg, kind |-> x.kind, m |-> x.m, e |-> x.e, digits |-> <<>>, decpt |-> 0]
                    Read(dec) ==
                        IF dec.digits = <<>>
                        THEN Of(dec.neg, [kind |-> "zero", m |-> <<>>, e |-> 0])
                        ELSE IF Len(dec.digits) <= 15 /\ dec.decpt >= 0 - 306 /\ dec.decpt <= 308
                        THEN [neg |-> dec.neg, kind |-> "decimal", m |-> <<>>, e |-> 0,
                              digits |-> dec.digits, decpt |-> dec.decpt]
                        ELSE Of(dec.neg, NearestDouble(dec.digits, dec.decpt))
                IN  IF lexeme = LitInfinity THEN Of(FALSE, [kind |-> "inf", m |-> <<>>, e |-> 0])
                    ELSE IF lexeme = LitMinusInfinity THEN Of(TRUE, [kind |-> "inf", m |-> <<>>, e |-> 0])
                    ELSE Read(Decimal(lexeme))
            IN  Def(args[1])
      [] op = "ReprDigits" ->
            LET Def(f) ==
                IF f.kind = "decimal" THEN [digits |-> f.digits, decpt |-> f.decpt]
                ELSE Shortest(f.m, f.e,
                              Expansion(f.m, f.e, IF f.e >= 0 THEN BigPow(2, f.e) ELSE BigPow(5, 0 - f.e)))
            IN  Def(args[1])
      [] op = "ColumnDigits" ->
            LET Def(f) ==
                IF f.kind = "decimal" THEN [digits |-> f.digits, decpt |-> f.decpt]
                ELSE Fifteen(f)
            IN  Def(args[1])
      [] op = "ExponentText" ->
            LET Def(x) ==
                <<101, IF x < 0 THEN 45 ELSE 43>>
                \o (LET a == IF x < 0 THEN 0 - x ELSE x
                    IN  (IF a >= 100 THEN <<48 + (a \div 100)>> ELSE <<>>)
                        \o <<48 + ((a \div 10) % 10), 48 + (a % 10)>>)
            IN  Def(args[1])
      [] op = "Pointed" ->
            LET Def(digits, decpt) ==
                LET text == [k \in 1..Len(digits) |-> 48 + digits[k]]
                IN  IF decpt <= 0
                    THEN <<48, 46>> \o [i \in 1..(0 - decpt) |-> 48] \o text
                    ELSE IF decpt >= Len(digits)
                         THEN text \o [i \in 1..(decpt - Len(digits)) |-> 48]
                              \o <<46, 48>>
                    ELSE SubSeq(text, 1, decpt) \o <<46>> \o SubSeq(text, decpt + 1, Len(text))
            IN  Def(args[1], args[2])
      [] op = "ReprForm" ->
            LET Def(d) ==
                IF d.decpt > 0 - 4 /\ d.decpt <= 16 THEN Pointed(d.digits, d.decpt)
                ELSE <<48 + d.digits[1]>>
                     \o (IF Len(d.digits) > 1
                         THEN <<46>>
                              \o [k \in 1..(Len(d.digits) - 1) |-> 48 + d.digits[k + 1]]
                         ELSE <<>>)
                     \o ExponentText(d.decpt - 1)
            IN  Def(args[1])
      [] op = "ColumnForm" ->
            LET Def(d) ==
                IF d.decpt > 0 - 4 /\ d.decpt <= 15 THEN Pointed(d.digits, d.decpt)
                ELSE Pointed(d.digits, 1) \o ExponentText(d.decpt - 1)
            IN  Def(args[1])
      [] op = "ReprText" ->
            LET Def(f) ==
                (IF f.neg THEN <<45>> ELSE <<>>)
                \o (CASE f.kind = "zero" -> <<48, 46, 48>>
                      [] f.kind = "inf" -> LitInfinity
                      [] OTHER -> ReprForm(ReprDigits(f)))
            IN  Def(args[1])
      [] op = "ColumnText" ->
            LET Def(f) ==
                CASE f.kind = "zero" -> <<48, 46, 48>>
                  [] f.kind = "inf" -> (IF f.neg THEN <<45>> ELSE <<>>) \o SubSeq(LitInfinity, 1, 3)
                  [] OTHER -> (IF f.neg THEN <<45>> ELSE <<>>) \o ColumnForm(ColumnDigits(f))
            IN  Def(args[1])
      [] op = "NumText" ->
            LET Def(lexeme) ==
                IF IsInt(lexeme)
                THEN (IF lexeme = <<45, 48>> THEN <<48>> ELSE lexeme)
                ELSE IF lexeme = LitNaN THEN LitNaN
                ELSE ReprText(Float(lexeme))
            IN  Def(args[1])
\* concatenation of a sequence of texts; starts[k] is the number of
\* characters before part k
Flatten(parts) ==
    LET Joined(starts) ==
            LET At(i, k) == parts[k][i - starts[k]]
            IN  [i \in 1..starts[Len(parts) + 1] |->
                    At(i, CHOOSE k \in 1..Len(parts) : starts[k] < i /\ i <= starts[k + 1])]
                \o <<>>
    IN  Joined([k \in 1..(Len(parts) + 1) |-> Sum([j \in 1..(k - 1) |-> Len(parts[j])])]
               \o <<>>)

\* json.dumps (ensure_ascii) of one character of a str: itself from the
\* space to the tilde but for the quote and the backslash, a two-character
\* escape, \uXXXX, or the \uXXXX\uXXXX of its surrogate pair from U+10000 on
EscapeChar(c) ==
    CASE c = 34 -> <<92, 34>>
      [] c = 92 -> <<92, 92>>
      [] c = 8 -> <<92, 98>>
      [] c = 9 -> <<92, 116>>
      [] c = 10 -> <<92, 110>>
      [] c = 12 -> <<92, 102>>
      [] c = 13 -> <<92, 114>>
      [] c >= 65536 ->
            <<92, 117>> \o Hex4(55296 + ((c - 65536) \div 1024))
            \o <<92, 117>> \o Hex4(56320 + ((c - 65536) % 1024))
      [] c < 32 \/ c > 126 -> <<92, 117>> \o Hex4(c)
      [] OTHER -> <<c>>

\* json.dumps of the characters of a str.  Every character has twelve
\* slots, the length of the longest escape: slot j holds the j-th character
\* written for it, and the slots its escape does not fill are dropped.
EscapeText(s) ==
    LET Slot(esc, j) == IF j <= Len(esc) THEN <<esc[j], TRUE>> ELSE <<0, FALSE>>
        slots == [k \in 1..(12 * Len(s)) |->
                     Slot(EscapeChar(s[((k - 1) \div 12) + 1]), ((k - 1) % 12) + 1)]
        Used(slot) == slot[2]
        used == SelectSeq(slots, Used)
    IN  [k \in 1..Len(used) |-> used[k][1]]

\* json.dumps of a str
DumpsStr(s) == <<34>> \o EscapeText(s) \o <<34>>

RECURSIVE Dumps(_)
\* json.dumps(value): ", " between items and ": " after a key
Dumps(val) ==
    CASE Tag(val) = "str" -> DumpsStr(Payload(val))
      [] Tag(val) = "null" -> LitNull
      [] Tag(val) = "bool" -> Payload(val)
      [] Tag(val) = "num" -> NumText(Payload(val))
      [] Tag(val) = "list" ->
            <<91>>
            \o Flatten([i \in 1..Len(Payload(val)) |->
                   (IF i > 1 THEN <<44, 32>> ELSE <<>>)
                   \o Dumps(Payload(val)[i])] \o <<>>)
            \o <<93>>
      [] Tag(val) = "obj" ->
            <<123>>
            \o Flatten([i \in 1..Len(Payload(val)) |->
                   (IF i > 1 THEN <<44, 32>> ELSE <<>>)
                   \o DumpsStr(Payload(val)[i][1]) \o <<58, 32>>
                   \o Dumps(Payload(val)[i][2])] \o <<>>)
            \o <<125>>

(***************************************************************************)
(* json.loads: a recursive-descent parser over the characters.  A parse    *)
(* result is [ok, error, val, pos]: pos is the index after the parsed      *)
(* value, error the exception of a failed parse.                           *)
(***************************************************************************)
ParseError(error) == [ok |-> FALSE, error |-> error, val |-> JNull, pos |-> 0]

ParseFail == ParseError("JSONDecodeError")

ParseOk(val, pos) == [ok |-> TRUE, error |-> "none", val |-> val, pos |-> pos]

\* the first index >= i that holds no whitespace: space, tab, line feed or
\* carriage return
SkipWs(s, i) ==
    LET IsWs(k) == s[k] \in {32, 9, 10, 13}
    IN  CHOOSE k \in i..(Len(s) + 1) :
            /\ k > Len(s) \/ ~IsWs(k)
            /\ \A j \in i..(k - 1) : IsWs(j)

\* the number of backslashes that end right before index j, none of them
\* before index i
BackslashRun(s, i, j) ==
    IF j = i \/ s[j - 1] /= 92 THEN 0
    ELSE Cardinality({k \in 1..(j - i) : \A m \in 1..k : s[j - m] = 92})

\* index j holds a quote that no backslash escapes
IsClosingQuote(s, i, j) == s[j] = 34 /\ BackslashRun(s, i, j) % 2 = 0

\* the index of the quote that closes the string literal whose characters
\* start at index i, 0 when none does
ClosingQuote(s, i) == FirstIndex({j \in i..Len(s) : IsClosingQuote(s, i, j)})

\* index p holds a backslash that escapes the next character
IsEscape(s, i, p) == s[p] = 92 /\ BackslashRun(s, i, p) % 2 = 0

\* index p holds the character a backslash escapes
IsEscaped(s, i, p) == BackslashRun(s, i, p) % 2 = 1

\* index p holds one of the four digits of a \uXXXX escape
InUnicodeEscape(s, i, p) ==
    \E q \in (p - 4)..(p - 1) : q >= i /\ s[q] = 117 /\ IsEscaped(s, i, q)

\* some escape of s[i..close-1] is none of \" \\ \/ \b \f \n \r \t \uXXXX
\* (u followed by four hexadecimal digits inside the literal)
BadEscape(s, i, close) ==
    \E p \in i..(close - 1) :
        /\ IsEscaped(s, i, p)
        /\ \/ s[p] \notin {34, 92, 47, 98, 102, 110,
                           114, 116, 117}
           \/ /\ s[p] = 117
              /\ ~(p + 4 < close /\ \A k \in 1..4 : IsHex(s[p + k]))

\* the number the four digits after the u at index p write
CodeUnit(s, p) ==
    4096 * HexValue(s[p + 1]) + 256 * HexValue(s[p + 2])
    + 16 * HexValue(s[p + 3]) + HexValue(s[p + 4])

\* the \uXXXX escape with its u at index p writes a high surrogate and the
\* characters right after it are the \uXXXX escape of a low surrogate: the
\* two escapes are read as one character
IsPair(s, close, p) ==
    /\ CodeUnit(s, p) \in 55296..56319
    /\ p + 10 < close
    /\ s[p + 5] = 92
    /\ s[p + 6] = 117
    /\ CodeUnit(s, p + 6) \in 56320..57343

\* the u at index p is the one of the second escape of such a pair
IsPairedLow(s, i, close, p) ==
    /\ s[p] = 117
    /\ IsEscaped(s, i, p)
    /\ p - 6 >= i
    /\ s[p - 6] = 117
    /\ IsEscaped(s, i, p - 6)
    /\ IsPair(s, close, p - 6)

\* the character the escape letter at index p stands for
EscapedChar(s, close, p) ==
    CASE s[p] = 98 -> 8
      [] s[p] = 102 -> 12
      [] s[p] = 110 -> 10
      [] s[p] = 114 -> 13
      [] s[p] = 116 -> 9
      [] s[p] = 117 ->
            IF IsPair(s, close, p)
            THEN 65536 + 1024 * (CodeUnit(s, p) - 55296) + (CodeUnit(s, p + 6) - 56320)
            ELSE CodeUnit(s, p)
      [] OTHER -> s[p]

\* the characters of the text at the given indices of the literal: the
\* character there, or the one its escape letter stands for
CharsAt(s, i, close, indices) ==
    [n \in 1..Len(indices) |->
        IF IsEscaped(s, i, indices[n]) THEN EscapedChar(s, close, indices[n])
        ELSE s[indices[n]]]

\* the text of s[i..close-1]: its characters without the escaping
\* backslashes, the digits of the \uXXXX escapes and the second escape of
\* every surrogate pair, each escape letter replaced by the character it
\* stands for
Unescape(s, i, close) ==
    LET Kept(p) == /\ ~IsEscape(s, i, p)
                   /\ ~InUnicodeEscape(s, i, p)
                   /\ ~IsPairedLow(s, i, close, p)
    IN  CharsAt(s, i, close, SelectSeq([n \in 1..(close - i) |-> i + n - 1], Kept))

\* the string literal s[i..close-1] closed by the quote at index close: no
\* closing quote, a bad escape or a raw control character is an error
StringUpTo(s, i, close) ==
    IF \/ close = 0
       \/ BadEscape(s, i, close)
       \/ \E p \in i..(close - 1) : s[p] < 32
    THEN ParseFail
    ELSE ParseOk(JStr(Unescape(s, i, close)), close + 1)

\* a string literal whose characters start at index i (after the opening
\* quote): it ends at the first quote that no backslash escapes; in it a
\* backslash that is not itself escaped escapes the next character, and no
\* control character stands unescaped
ParseString(s, i) == StringUpTo(s, i, ClosingQuote(s, i))

\* index j of s holds a digit
IsDigitAt(s, j) == j <= Len(s) /\ IsDigit(s[j])

\* the first index >= j that holds no digit
DigitsEnd(s, j) ==
    CHOOSE k \in j..(Len(s) + 1) : ~IsDigitAt(s, k) /\ \A m \in j..(k - 1) : IsDigitAt(s, m)

\* -?(0|[1-9]\d*) from index i: the index after it, 0 when it does not match
IntEnd(s, i) ==
    IF i <= Len(s) /\ s[i] = 45
    THEN IF ~IsDigitAt(s, i + 1) THEN 0
         ELSE IF s[i + 1] = 48 THEN i + 2 ELSE DigitsEnd(s, i + 1)
    ELSE IF ~IsDigitAt(s, i) THEN 0
         ELSE IF s[i] = 48 THEN i + 1 ELSE DigitsEnd(s, i)

\* (\.\d+)? from index j: the index after it
FracEnd(s, j) ==
    IF j <= Len(s) /\ s[j] = 46 /\ IsDigitAt(s, j + 1) THEN DigitsEnd(s, j + 1) ELSE j

\* ([eE][-+]?\d+)? from index j: the index after it
ExpEnd(s, j) ==
    IF j <= Len(s) /\ s[j] \in {101, 69}
    THEN IF IsDigitAt(s, j + 1) THEN DigitsEnd(s, j + 1)
         ELSE IF j + 1 <= Len(s) /\ s[j + 1] \in {43, 45} /\ IsDigitAt(s, j + 2)
              THEN DigitsEnd(s, j + 2)
         ELSE j
    ELSE j

\* the index after the number literal that starts at index i, 0 when none does
NumberEnd(s, i) ==
    IF IntEnd(s, i) = 0 THEN 0 ELSE ExpEnd(s, FracEnd(s, IntEnd(s, i)))

\* the number literal s[i..end-1]: int() refuses a literal of more than
\* 4300 digits (ValueError), float() reads any
ParseNumber(s, i, end) ==
    IF /\ IsInt(SubSeq(s, i, end - 1))
       /\ end - i - (IF s[i] = 45 THEN 1 ELSE 0) > 4300
    THEN ParseError("ValueError")
    ELSE ParseOk(JNum(SubSeq(s, i, end - 1)), end)

\* the literal lit stands at index i of s
StartsWith(s, i, lit) ==
    i + Len(lit) - 1 <= Len(s) /\ SubSeq(s, i, i + Len(lit) - 1) = lit

\* null, true, false, a number, NaN, Infinity or -Infinity at index i
ParseLiteral(s, i) ==
    IF StartsWith(s, i, LitNull) THEN ParseOk(JNull, i + Len(LitNull))
    ELSE IF StartsWith(s, i, LitTrue) THEN ParseOk(JBool(LitTrue), i + Len(LitTrue))
    ELSE IF StartsWith(s, i, LitFalse) THEN ParseOk(JBool(LitFalse), i + Len(LitFalse))
    ELSE IF NumberEnd(s, i) /= 0 THEN ParseNumber(s, i, NumberEnd(s, i))
    ELSE IF StartsWith(s, i, LitNaN) THEN ParseOk(JNum(LitNaN), i + Len(LitNaN))
    ELSE IF StartsWith(s, i, LitInfinity)
         THEN ParseOk(JNum(LitInfinity), i + Len(LitInfinity))
    ELSE IF StartsWith(s, i, LitMinusInfinity)
         THEN ParseOk(JNum(LitMinusInfinity), i + Len(LitMinusInfinity))
    ELSE ParseFail

\* dict[key] = val: a repeated key keeps its place and takes the new value
SetMember(members, key, val) ==
    IF \E j \in 1..Len(members) : members[j][1] = key
    THEN [j \in 1..Len(members) |->
             IF members[j][1] = key THEN <<key, val>> ELSE members[j]]
    ELSE Append(members, <<key, val>>)

RECURSIVE ParseValue(_, _)
RECURSIVE ParseElements(_, _, _)
RECURSIVE ParseMembers(_, _, _)

\* after an item of an array: "," and the next item, or "]"
ElementsSeparator(s, acc, j) ==
    IF j > Len(s) THEN ParseFail
    ELSE IF s[j] = 44 THEN ParseElements(s, j + 1, acc)
    ELSE IF s[j] = 93 THEN ParseOk(JList(acc), j + 1)
    ELSE ParseFail

\* the item r just parsed joins the items acc
ElementsItem(s, acc, r) ==
    IF ~r.ok THEN r
    ELSE ElementsSeparator(s, Append(acc, r.val), SkipWs(s, r.pos))

\* the items of an array from index i (at an item), acc the items so far
ParseElements(s, i, acc) == ElementsItem(s, acc, ParseValue(s, SkipWs(s, i)))

\* after a member of an object: "," and the next member, or "}"
MembersSeparator(s, acc, j) ==
    IF j > Len(s) THEN ParseFail
    ELSE IF s[j] = 44 THEN ParseMembers(s, j + 1, acc)
    ELSE IF s[j] = 125 THEN ParseOk(JObj(acc), j + 1)
    ELSE ParseFail

\* the value r just parsed is stored under key
MembersValue(s, acc, key, r) ==
    IF ~r.ok THEN r
    ELSE MembersSeparator(s, SetMember(acc, key, r.val), SkipWs(s, r.pos))

\* after a key: ":" at index c, then the value
MembersColon(s, acc, key, c) ==
    IF c > Len(s) \/ s[c] /= 58 THEN ParseFail
    ELSE MembersValue(s, acc, key, ParseValue(s, SkipWs(s, c + 1)))

\* the key literal just parsed
MembersKey(s, acc, key) ==
    IF ~key.ok THEN key
    ELSE MembersColon(s, acc, Payload(key.val), SkipWs(s, key.pos))

\* a member starts with the quote of its key at index k
MembersStart(s, acc, k) ==
    IF k > Len(s) \/ s[k] /= 34 THEN ParseFail
    ELSE MembersKey(s, acc, ParseString(s, k + 1))

\* the members of an object from index i (at a key), acc the members so far
ParseMembers(s, i, acc) == MembersStart(s, acc, SkipWs(s, i))

\* an array whose first non-whitespace character after "[" is at index j
ArrayFrom(s, j) ==
    IF j <= Len(s) /\ s[j] = 93 THEN ParseOk(JList(<<>>), j + 1)
    ELSE ParseElements(s, j, <<>>)

\* an object whose first non-whitespace character after "{" is at index j
ObjectFrom(s, j) ==
    IF j <= Len(s) /\ s[j] = 125 THEN ParseOk(JObj(<<>>), j + 1)
    ELSE ParseMembers(s, j, <<>>)

\* one JSON value starting at index i (no whitespace at i)
ParseValue(s, i) ==
    IF i > Len(s) THEN ParseFail
    ELSE IF s[i] = 34 THEN ParseString(s, i + 1)
    ELSE IF s[i] = 91 THEN ArrayFrom(s, SkipWs(s, i + 1))
    ELSE IF s[i] = 123 THEN ObjectFrom(s, SkipWs(s, i + 1))
    ELSE ParseLiteral(s, i)

\* the value r is the whole text: only whitespace follows it
WholeText(s, r) ==
    IF ~r.ok THEN r
    ELSE IF SkipWs(s, r.pos) = Len(s) + 1 THEN r
    ELSE ParseFail

\* json.loads(text): one value, whitespace around it, nothing after it
Loads(s) == WholeText(s, ParseValue(s, SkipWs(s, 1)))

\* dict.get(key, default)
Get(obj, key, default) ==
    IF \E j \in 1..Len(Payload(obj)) : Payload(obj)[j][1] = key
    THEN Payload(obj)[CHOOSE j \in 1..Len(Payload(obj)) : Payload(obj)[j][1] = key][2]
    ELSE default

\* the keys of a dict
Keys(obj) == {Payload(obj)[j][1] : j \in 1..Len(Payload(obj))}

(***************************************************************************)
(* Inputs: the values requests, extractors and the LLM call are drawn      *)
(* from.                                                                   *)
(***************************************************************************)
\* name, city and category of a POST /places/ body (pydantic: any str)
PlaceInputs ==
    { [name |-> Text(<<"A","b">>), city |-> Text(<<"P","u">>), category |-> Text(<<"c","a">>)],
      [name |-> Text(<<"C">>), city |-> Text(<<"p","u">>), category |-> Text(<<"c","a">>)],
      \* name "\u00c9" (E with acute), city "\u00dc" (U with diaeresis)
      [name |-> <<201>>, city |-> <<220>>, category |-> Text(<<"c","a">>)],
      [name |-> <<>>, city |-> <<>>, category |-> <<>>] }

\* the one body the scrape pipeline creates places from
PipelinePlaceInputs == { [name |-> Text(<<"A","b">>), city |-> Text(<<"P","u">>), category |-> Text(<<"c","a">>)] }

\* the city / category query parameters of GET /places/
CityInputs == {None, Some(<<>>), Some(Text(<<"P","u">>)), Some(Text(<<"p","u">>))}

CategoryInputs == {None, Some(Text(<<"c","a">>))}

\* google_maps_url / tripadvisor_url of a scrape request
UrlInputs == {None, Some(Text(<<"u">>))}

\* place ids a request may name: the rows that can exist and one beyond
PlaceIds == 1..(MaxPlaces + 1)

\* the review texts an extractor returns, in order: "ok", "bad", "ok", ...
ReviewText(i) == IF i % 2 = 1 THEN Text(<<"o","k">>) ELSE Text(<<"b","a","d">>)

\* the review texts the TripAdvisor extractor returns, in order: "fine",
\* "poor", "fine", ...
TripAdvisorText(i) ==
    IF i % 2 = 1 THEN Text(<<"f","i","n","e">>) ELSE Text(<<"p","o","o","r">>)

\* the i-th text the extractor of a source returns
ExtractorText(source, i) ==
    IF source = SourceGoogle THEN ReviewText(i) ELSE TripAdvisorText(i)

\* what awaiting the extractor of a source yields: an exception, or a list
\* of at most `longest` texts
ExtractorOutcomes(source, longest) ==
    { [raised |-> TRUE, reviews |-> <<>>] }
    \cup { [raised |-> FALSE, reviews |-> [i \in 1..n |-> ExtractorText(source, i)]] :
             n \in 0..longest }

\* replies of the chat-completion call (response.choices[0].message['content'])
ReplyGood ==
    \* {"summary":"s","mood_tags":["a","b"],"key_themes":["k"]}
    Text(<<"{","\"","s","u","m","m","a","r","y","\"",":","\"","s","\"",",","\"","m","o","o","d","_",
      "t","a","g","s","\"",":","[","\"","a","\"",",","\"","b","\"","]",",","\"","k","e","y","_",
      "t","h","e","m","e","s","\"",":","[","\"","k","\"","]","}">>)

ReplyEscaped ==
    \* a reply printed over several lines, with the escapes \u00e9, \" and \n:
    \* {
    \*   "summary": "caf\u00e9",
    \*   "mood_tags": ["a\"b", "x\ny"],
    \*   "key_themes": []
    \* }
    Text(<<"{","\n"," "," ","\"","s","u","m","m","a","r","y","\"",":"," ","\"","c","a","f","\\","u",
      "0","0","e","9","\"",",","\n"," "," ","\"","m","o","o","d","_","t","a","g","s","\"",":",
      " ","[","\"","a","\\","\"","b","\"",","," ","\"","x","\\","n","y","\"","]",",","\n"," ",
      " ","\"","k","e","y","_","t","h","e","m","e","s","\"",":"," ","[","]","\n","}","\n">>)

ReplyNumbers ==
    \* {"summary": 4, "mood_tags": [true], "key_themes": [], "rating": 4.5}
    Text(<<"{","\"","s","u","m","m","a","r","y","\"",":"," ","4",","," ","\"","m","o","o","d","_",
      "t","a","g","s","\"",":"," ","[","t","r","u","e","]",","," ","\"","k","e","y","_","t","h",
      "e","m","e","s","\"",":"," ","[","]",","," ","\"","r","a","t","i","n","g","\"",":"," ",
      "4",".","5","}">>)

ReplyMissingKeys ==
    \* {"summary":"s"}
    Text(<<"{","\"","s","u","m","m","a","r","y","\"",":","\"","s","\"","}">>)

ReplyWrongType ==
    \* {"summary":"s","mood_tags":"a","key_themes":[]}
    Text(<<"{","\"","s","u","m","m","a","r","y","\"",":","\"","s","\"",",","\"","m","o","o","d","_",
      "t","a","g","s","\"",":","\"","a","\"",",","\"","k","e","y","_","t","h","e","m","e","s",
      "\"",":","[","]","}">>)

ReplyProse ==
    \* Sure
    Text(<<"S","u","r","e">>)

\* str(e) of an exception of the chat-completion call
ExceptionTimeout == Text(<<"t","i","m","e","o","u","t">>)

\* what awaiting openai.ChatCompletion.acreate yields
LLMOutcomes ==
    { [raised |-> FALSE, text |-> r] :
        r \in {ReplyGood, ReplyEscaped, ReplyNumbers, ReplyMissingKeys, ReplyWrongType,
               ReplyProse} }
    \cup { [raised |-> TRUE, text |-> ExceptionTimeout] }

(***************************************************************************)
(* ai_summarizer.summarize_reviews                                         *)
(***************************************************************************)
\* the error payload of summarize_reviews, as the dict it builds
ErrorMessage(summary, theme) ==
    JObj(<< <<KeySummary, JStr(summary)>>,
            <<KeyMoodTags, JStrList(<<TagError>>)>>,
            <<KeyKeyThemes, JStrList(<<theme>>)>> >>)

\* summarize_reviews(reviews) given whether openai.api_key is set and what
\* the chat-completion call yields
summarize_reviews(reviews, key_set, llm) ==
    IF ~key_set
    THEN Dumps(ErrorMessage(MissingKeySummary, ThemeConfiguration))
    ELSE IF llm.raised
    THEN Dumps(ErrorMessage(ApiErrorPrefix \o llm.text, ThemeApiFailure))
    ELSE llm.text

(***************************************************************************)
(* State.                                                                  *)
(*   places, reviews, vibe_summaries: the committed rows of the three      *)
(*     tables, in insertion order; a row's id is its index (AUTOINCREMENT, *)
(*     no row is ever deleted).  The nullable columns no code reads        *)
(*     (address, latitude, longitude, rating, date) are left out.          *)
(*   tasks: the background scrape-and-store tasks in the order they were   *)
(*     enqueued, each with its position (pc), its arguments, its locals,   *)
(*     its connection and the rows of its open write transaction           *)
(*     (pending).  g_out/g_ret and t_out/t_ret record what the two         *)
(*     extractor calls yielded; passed is the list summarize_reviews was   *)
(*     called with; error names the exception that ended the task in its   *)
(*     outer except.                                                       *)
(*   upserts: the tasks whose summary write was committed, in commit order.*)
(*   api_key: whether openai.api_key is set (read once at import).         *)
(*   response: the answer of the handler that ran in the last step, with   *)
(*     the state its connection was left in; NoResponse after a task step. *)
(*   gmaps: one run of the maps scraper (gmaps_scraper.py, a program of    *)
(*     its own): its position, the locations it loops over, the index of   *)
(*     the next one, its results and what each visited location yielded.   *)
(***************************************************************************)
VARIABLES places, reviews, vibe_summaries, tasks, upserts, api_key, response, gmaps

vars == <<places, reviews, vibe_summaries, tasks, upserts, api_key, response, gmaps>>

NoResponse == [op |-> "none"]

Response(op, req, status, body, conn) ==
    [op |-> op, req |-> req, status |-> status, body |-> body, conn |-> conn]

(***************************************************************************)
(* The store: sqlite3 with the default journal and isolation level.  The   *)
(* first INSERT/UPDATE on a connection opens a write transaction that      *)
(* lasts until commit; while it is open every write on another connection  *)
(* waits for the busy timeout and raises OperationalError (database is     *)
(* locked).  Reads see the committed rows.                                 *)
(***************************************************************************)
\* Some other connection than task i's (i = 0: a handler's) holds an open
\* write transaction.
WriteLocked(ts, i) ==
    \E j \in 1..Len(ts) : j /= i /\ ts[j].pending /= <<>>

\* SELECT * FROM places WHERE id = ?  (fetchone() is not None)
PlaceExists(pl, place_id) == place_id \in 1..Len(pl)

\* a row of places as the dict a handler returns
PlaceDict(pl, i) ==
    [id |-> i, name |-> pl[i].name, city |-> pl[i].city, category |-> pl[i].category]

\* SELECT * FROM vibe_summaries WHERE place_id = ?  (all matching rows)
VibeRows(vs, place_id) ==
    LET Match(r) == r.place_id = place_id
    IN  SelectSeq(vs, Match)

\* UPDATE vibe_summaries SET summary, mood_tags, key_themes WHERE place_id = ?
UpdateVibe(vs, row) ==
    [i \in 1..Len(vs) |-> IF vs[i].place_id = row.place_id THEN row ELSE vs[i]]

\* INSERT INTO vibe_summaries: place_id is UNIQUE, a second row for the
\* place raises IntegrityError
InsertVibe(vs, row) ==
    IF VibeRows(vs, row.place_id) /= <<>>
    THEN [ok |-> FALSE, rows |-> vs]
    ELSE [ok |-> TRUE, rows |-> Append(vs, row)]

\* the upsert with its duplicate check dropped on a table without UNIQUE
UpsertAlwaysInserts(vs, row) == [ok |-> TRUE, rows |-> Append(vs, row)]

\* lines 104-116: SELECT existing, then UPDATE if present, INSERT if absent
UpsertVibe(vs, row) ==
    IF VibeRows(vs, row.place_id) /= <<>>
    THEN [ok |-> TRUE, rows |-> UpdateVibe(vs, row)]
    ELSE InsertVibe(vs, row)

(***************************************************************************)
(* scrape_and_store_reviews, one action per stretch between two awaits.    *)
(***************************************************************************)
\* background_tasks.add_task(scrape_and_store_reviews, place_id, ...)
NewTask(place_id, google_maps_url, tripadvisor_url) ==
    [ pc |-> "queued", place_id |-> place_id,
      google_maps_url |-> google_maps_url, tripadvisor_url |-> tripadvisor_url,
      conn |-> "none", all_reviews |-> <<>>, pending |-> <<>>,
      passed |-> None, summary_json |-> None, result |-> "none", error |-> "none",
      g_out |-> "none", g_ret |-> <<>>, t_out |-> "none", t_ret |-> <<>> ]

\* the loop of a source with the text appended to all_reviews before its
\* INSERT is executed: the text of a failing INSERT stays in the list
StoreReviewsAppendsFirst(t, source, outcome, locked) ==
    IF outcome.raised \/ outcome.reviews = <<>>
    THEN t
    ELSE IF locked
    THEN [t EXCEPT !.all_reviews = Append(@, outcome.reviews[1])]
    ELSE [t EXCEPT
            !.pending = @ \o [i \in 1..Len(outcome.reviews) |->
                                [place_id |-> t.place_id, source |-> source,
                                 content |-> outcome.reviews[i]]],
            !.all_reviews = @ \o outcome.reviews]

\* the try block of one source (lines 63-75 / 79-91): the awaited extractor
\* raised, or each text is inserted and appended to all_reviews; the first
\* INSERT raises when another connection holds the write lock, and the
\* except clause swallows either exception
StoreReviews(t, source, outcome, locked) ==
    IF outcome.raised \/ outcome.reviews = <<>> \/ locked
    THEN t
    ELSE [t EXCEPT
            !.pending = @ \o [i \in 1..Len(outcome.reviews) |->
                                [place_id |-> t.place_id, source |-> source,
                                 content |-> outcome.reviews[i]]],
            !.all_reviews = @ \o outcome.reviews]

\* the outer except and finally (lines 124-127): the exception is printed,
\* the connection closed (an open transaction is rolled back), None returned
Failed(t, error) ==
    [t EXCEPT !.pc = "done", !.result = "failed", !.error = error,
              !.pending = <<>>, !.conn = "closed"]

\* 2**63 - 1 and 2**63, the largest magnitudes of an SQLite INTEGER
MaxInt64 ==
    Text(<<"9","2","2","3","3","7","2","0","3","6","8","5","4","7","7","5","8","0","7">>)

MinInt64 ==
    Text(<<"9","2","2","3","3","7","2","0","3","6","8","5","4","7","7","5","8","0","8">>)

\* a > b for two digit texts of one length
DigitsGreater(a, b) ==
    \E k \in 1..Len(a) :
        /\ a[k] > b[k]
        /\ \A j \in 1..(k - 1) : a[j] = b[j]

\* the int literal is outside -2**63 .. 2**63 - 1
ExceedsInt64(lexeme) ==
    IF lexeme[1] = 45
    THEN Len(lexeme) > 20 \/ (Len(lexeme) = 20 /\ DigitsGreater(Tail(lexeme), MinInt64))
    ELSE Len(lexeme) > 19 \/ (Len(lexeme) = 19 /\ DigitsGreater(lexeme, MaxInt64))

\* a bound parameter: the exception of the binding, or NULL, or a text
Bound(error, null, text) == [error |-> error, null |-> null, text |-> text]

\* what sqlite3 binds for the Python value as the summary parameter of
\* lines 108-116 and the TEXT column then holds: a str as it is (one with a
\* surrogate cannot be encoded as UTF-8), an int as its text, a float as
\* SQLite renders a REAL, True and False as 1 and 0, None and NaN as NULL;
\* an int outside 64 bits, a list and a dict raise on binding
BindText(val) ==
    CASE Tag(val) = "str" ->
            IF \E k \in 1..Len(Payload(val)) : Payload(val)[k] \in 55296..57343
            THEN Bound("UnicodeEncodeError", FALSE, <<>>)
            ELSE Bound("none", FALSE, Payload(val))
      [] Tag(val) = "null" -> Bound("none", TRUE, <<>>)
      [] Tag(val) = "bool" ->
            Bound("none", FALSE,
                  IF Payload(val) = LitTrue THEN <<48 + 1>> ELSE <<48>>)
      [] Tag(val) = "num" ->
            IF Payload(val) = LitNaN THEN Bound("none", TRUE, <<>>)
            ELSE IF ~IsInt(Payload(val))
                 THEN Bound("none", FALSE, ColumnText(Float(Payload(val))))
            ELSE IF ExceedsInt64(NumText(Payload(val)))
                 THEN Bound("OverflowError", FALSE, <<>>)
            ELSE Bound("none", FALSE, NumText(Payload(val)))
      [] OTHER -> Bound("BindingError", FALSE, <<>>)

\* lines 99-101 and the parameters of lines 108-116: the column values the
\* upsert binds for the parsed summary_data
SummaryRow(place_id, summary_data) ==
    [place_id |-> place_id,
     summary |-> BindText(Get(summary_data, KeySummary, JStr(DefaultSummary))).text,
     mood_tags |-> Dumps(Get(summary_data, KeyMoodTags, JList(<<>>))),
     key_themes |-> Dumps(Get(summary_data, KeyKeyThemes, JList(<<>>)))]

\* lines 98-127 end in the outer except: the stores are as they were
Unchanged(t, vs, error) == [task |-> Failed(t, error), vibe |-> vs, wrote |-> FALSE]

\* lines 104-120 with the summary parameter as sqlite3 binds it and the
\* outcome up of the upsert: binding the summary may raise, the write needs
\* the lock, and summary is NOT NULL
WriteSummary(t, vs, summary, up, locked) ==
    IF summary.error /= "none" THEN Unchanged(t, vs, summary.error)
    ELSE IF locked THEN Unchanged(t, vs, "OperationalError")
    ELSE IF summary.null THEN Unchanged(t, vs, "IntegrityError")
    ELSE IF ~up.ok THEN Unchanged(t, vs, "IntegrityError")
    ELSE [task |-> [t EXCEPT !.pc = "done", !.result = "summarized", !.conn = "closed"],
          vibe |-> up.rows, wrote |-> TRUE]

\* lines 98-102 with the outcome of json.loads: it may have raised, and
\* .get needs a dict
ParsedSummary(t, vs, parsed, locked) ==
    IF ~parsed.ok THEN Unchanged(t, vs, parsed.error)
    ELSE IF Tag(parsed.val) /= "obj" THEN Unchanged(t, vs, "AttributeError")
    ELSE WriteSummary(t, vs,
                      BindText(Get(parsed.val, KeySummary, JStr(DefaultSummary))),
                      UpsertVibe(vs, SummaryRow(t.place_id, parsed.val)), locked)

\* lines 98-120 once summarize_reviews has returned summary_json: what the
\* task becomes and what vibe_summaries becomes
StoreSummary(t, vs, summary_json, locked) ==
    ParsedSummary([t EXCEPT !.summary_json = Some(summary_json)], vs,
                  Loads(summary_json), locked)

\* the outcome r of lines 98-127 in the step that committed the reviews rv
WithReviews(r, rv) ==
    [task |-> r.task, reviews |-> rv, vibe |-> r.vibe, wrote |-> r.wrote]

\* the chat-completion call that is not made (no API key)
NoCall == [raised |-> FALSE, text |-> <<>>]

\* lines 93-97 and 122: commit the inserts; with no review collected return
\* (0, False) through the finally clause.  Else summarize_reviews is
\* awaited: with the API key set it suspends at the chat-completion call and
\* the task goes on in a later step; with no key it returns its error
\* payload without suspending, so lines 98-127 run in this same step.
AfterSources(t, rv, vs, key_set, locked) ==
    IF t.all_reviews = <<>>
    THEN [task |-> [t EXCEPT !.pending = <<>>, !.pc = "done", !.result = "empty",
                             !.conn = "closed"],
          reviews |-> rv \o t.pending, vibe |-> vs, wrote |-> FALSE]
    ELSE IF key_set
    THEN [task |-> [t EXCEPT !.pending = <<>>, !.pc = "summarize",
                             !.passed = Some(t.all_reviews)],
          reviews |-> rv \o t.pending, vibe |-> vs, wrote |-> FALSE]
    ELSE WithReviews(
             StoreSummary([t EXCEPT !.pending = <<>>, !.passed = Some(t.all_reviews)],
                          vs, summarize_reviews(t.all_reviews, FALSE, NoCall), locked),
             rv \o t.pending)

\* line 78: await the second extractor when its URL is given
AfterGoogle(t, rv, vs, key_set, locked) ==
    IF Truthy(t.tripadvisor_url)
    THEN [task |-> [t EXCEPT !.pc = "tripadvisor"], reviews |-> rv, vibe |-> vs,
          wrote |-> FALSE]
    ELSE AfterSources(t, rv, vs, key_set, locked)

\* the event loop has run task i up to its next await or its end: what the
\* task and its connection left
Resumed(i, next) ==
    /\ tasks' = [tasks EXCEPT ![i] = next.task]
    /\ reviews' = next.reviews
    /\ vibe_summaries' = next.vibe
    /\ upserts' = IF next.wrote THEN Append(upserts, i) ELSE upserts
    /\ response' = NoResponse
    /\ UNCHANGED <<places, api_key, gmaps>>

\* line 62 (google_maps_url given): the task suspends at the first extractor
AwaitGoogle(t, rv, vs) ==
    [task |-> [t EXCEPT !.pc = "google"], reviews |-> rv, vibe |-> vs, wrote |-> FALSE]

\* the extractor's outcome as the task saw it
Seen(outcome) == IF outcome.raised THEN "raised" ELSE "returned"

\* the task starts: lines 57-62
RunTask(i) ==
    /\ tasks[i].pc = "queued"
    /\ Resumed(i, IF Truthy(tasks[i].google_maps_url)
                  THEN AwaitGoogle([tasks[i] EXCEPT !.conn = "open"], reviews,
                                   vibe_summaries)
                  ELSE AfterGoogle([tasks[i] EXCEPT !.conn = "open"], reviews,
                                   vibe_summaries, api_key, WriteLocked(tasks, i)))

\* await scrape_google_maps_reviews(...) completes: lines 65-78, and on to
\* the next await of the task
GoogleDone(i, outcome) ==
    /\ tasks[i].pc = "google"
    /\ Resumed(i, AfterGoogle([StoreReviews(tasks[i], SourceGoogle, outcome,
                                            WriteLocked(tasks, i))
                                  EXCEPT !.g_out = Seen(outcome),
                                         !.g_ret = outcome.reviews],
                              reviews, vibe_summaries, api_key, WriteLocked(tasks, i)))

\* await scrape_tripadvisor_reviews(...) completes: lines 81-97, and on to
\* the next await of the task
TripAdvisorDone(i, outcome) ==
    /\ tasks[i].pc = "tripadvisor"
    /\ Resumed(i, AfterSources([StoreReviews(tasks[i], SourceTripAdvisor, outcome,
                                             WriteLocked(tasks, i))
                                   EXCEPT !.t_out = Seen(outcome),
                                          !.t_ret = outcome.reviews],
                               reviews, vibe_summaries, api_key, WriteLocked(tasks, i)))

\* the chat-completion call awaited at ai_summarizer.py:50 completes (the
\* API key is set): the rest of summarize_reviews and lines 98-127
SummarizerDone(i, llm) ==
    /\ tasks[i].pc = "summarize"
    /\ Resumed(i, WithReviews(
                      StoreSummary(tasks[i], vibe_summaries,
                                   summarize_reviews(tasks[i].all_reviews, api_key, llm),
                                   WriteLocked(tasks, i)),
                      reviews))

(***************************************************************************)
(* The HTTP handlers.  Each is async def with no await in its body, so it  *)
(* runs to its end in one step of the event loop.                          *)
(***************************************************************************)
\* the handler's answer to a missing place with its check dropped
ScrapeReviewsNoCheck(pl, place_id) == 200

\* lines 135-140 of scrape_reviews: 404 unless the place exists
ScrapeReviewsStatus(pl, place_id) ==
    IF PlaceExists(pl, place_id) THEN 200 ELSE 404

\* POST /scrape/reviews
scrape_reviews(place_id, google_maps_url, tripadvisor_url) ==
    LET status == ScrapeReviewsStatus(places, place_id)
    IN  /\ status = 200 => Len(tasks) < MaxTasks
        /\ tasks' = IF status = 200
                    THEN Append(tasks, NewTask(place_id, google_maps_url, tripadvisor_url))
                    ELSE tasks
        /\ response' = Response("scrape_reviews", [place_id |-> place_id], status,
                                <<>>, "closed")
        /\ UNCHANGED <<places, reviews, vibe_summaries, upserts, api_key, gmaps>>

\* POST /scrape/place-and-reviews: the INSERT raises while a task holds the
\* write lock; the handler answers 500 and its finally closes the connection
create_place_and_scrape_reviews(p, google_maps_url, tripadvisor_url) ==
    /\ ~WriteLocked(tasks, 0) => Len(places) < MaxPlaces /\ Len(tasks) < MaxTasks
    /\ IF WriteLocked(tasks, 0)
       THEN /\ response' = Response("create_place_and_scrape_reviews", p, 500, <<>>, "closed")
            /\ UNCHANGED <<places, tasks>>
       ELSE /\ places' = Append(places, p)
            /\ tasks' = Append(tasks, NewTask(Len(places) + 1, google_maps_url,
                                              tripadvisor_url))
            /\ response' = Response("create_place_and_scrape_reviews", p, 200, <<>>, "closed")
    /\ UNCHANGED <<reviews, vibe_summaries, upserts, api_key, gmaps>>

\* POST /places/: no try/finally; when the INSERT raises, the exception
\* leaves the handler before conn.close() and the framework answers 500
create_place(p) ==
    /\ ~WriteLocked(tasks, 0) => Len(places) < MaxPlaces
    /\ IF WriteLocked(tasks, 0)
       THEN /\ response' = Response("create_place", p, 500, <<>>, "open")
            /\ UNCHANGED places
       ELSE /\ places' = Append(places, p)
            /\ response' = Response("create_place", p, 200,
                                    PlaceDict(places', Len(places')), "closed")
    /\ UNCHANGED <<reviews, vibe_summaries, tasks, upserts, api_key, gmaps>>

\* the city filter compared without regard to what was asked
GetPlacesIgnoresCity(pl, city, category) ==
    LET Keep(i) == Truthy(category) => pl[i].category = category[1]
        ids == SelectSeq([i \in 1..Len(pl) |-> i], Keep)
    IN  [k \in 1..Len(ids) |-> PlaceDict(pl, ids[k])]

\* lines 250-261: SELECT * FROM places WHERE 1=1 [AND city = ?]
\* [AND category = ?]; a filter is added only for a truthy parameter
GetPlacesRows(pl, city, category) ==
    LET Keep(i) == /\ Truthy(city) => pl[i].city = city[1]
                   /\ Truthy(category) => pl[i].category = category[1]
        ids == SelectSeq([i \in 1..Len(pl) |-> i], Keep)
    IN  [k \in 1..Len(ids) |-> PlaceDict(pl, ids[k])]

\* GET /places/
get_places(city, category) ==
    /\ response' = Response("get_places", [city |-> city, category |-> category], 200,
                            GetPlacesRows(places, city, category), "closed")
    /\ UNCHANGED <<places, reviews, vibe_summaries, tasks, upserts, api_key, gmaps>>

\* GET /places/{place_id}
get_place(place_id) ==
    /\ response' = IF PlaceExists(places, place_id)
                   THEN Response("get_place", [place_id |-> place_id], 200,
                                 PlaceDict(places, place_id), "closed")
                   ELSE Response("get_place", [place_id |-> place_id], 404, <<>>, "closed")
    /\ UNCHANGED <<places, reviews, vibe_summaries, tasks, upserts, api_key, gmaps>>

\* lines 287-290: SELECT * FROM reviews WHERE place_id = ?, each row a dict
GetReviewsRows(rv, place_id) ==
    LET Keep(i) == rv[i].place_id = place_id
        ids == SelectSeq([i \in 1..Len(rv) |-> i], Keep)
    IN  [k \in 1..Len(ids) |->
            [id |-> ids[k], place_id |-> place_id, source |-> rv[ids[k]].source,
             content |-> rv[ids[k]].content]]

\* GET /places/{place_id}/reviews: no look-up of the place
get_reviews(place_id) ==
    /\ response' = Response("get_reviews", [place_id |-> place_id], 200,
                            GetReviewsRows(reviews, place_id), "closed")
    /\ UNCHANGED <<places, reviews, vibe_summaries, tasks, upserts, api_key, gmaps>>

\* pydantic's List[str]: a list whose items are all str
IsStrList(val) ==
    /\ Tag(val) = "list"
    /\ \A i \in 1..Len(Payload(val)) : Tag(Payload(val)[i]) = "str"

\* the texts of a list of str
StrListTexts(val) == [i \in 1..Len(Payload(val)) |-> Payload(Payload(val)[i])]

\* lines 294-307: 404 without a row; else the row with mood_tags and
\* key_themes parsed by json.loads and validated as VibeSummary, whose
\* failure leaves the handler as an unhandled exception (500)
GetVibeAnswer(vs, place_id) ==
    LET rows == VibeRows(vs, place_id)
    IN  IF rows = <<>> THEN [status |-> 404, body |-> <<>>]
        ELSE
          LET mood == Loads(rows[1].mood_tags)
              themes == Loads(rows[1].key_themes)
          IN  IF mood.ok /\ themes.ok /\ IsStrList(mood.val) /\ IsStrList(themes.val)
              THEN [status |-> 200,
                    body |-> [place_id |-> rows[1].place_id,
                              summary |-> rows[1].summary,
                              mood_tags |-> StrListTexts(mood.val),
                              key_themes |-> StrListTexts(themes.val)]]
              ELSE [status |-> 500, body |-> <<>>]

\* GET /places/{place_id}/vibe
get_vibe_summary(place_id) ==
    /\ LET answer == GetVibeAnswer(vibe_summaries, place_id)
       IN  response' = Response("get_vibe_summary", [place_id |-> place_id],
                                answer.status, answer.body, "closed")
    /\ UNCHANGED <<places, reviews, vibe_summaries, tasks, upserts, api_key, gmaps>>

(***************************************************************************)
(* GET /search/: str.lower(), SQLite's LOWER() and LIKE.                   *)
(***************************************************************************)
\* str.lower() of a single character, as the runs <<first, last, step,
\* delta>> of the Unicode database of Python 3.11: every step-th code point
\* from first to last has the lower case code + delta.  Not in the table:
\* U+0130, whose lower case is two characters, and the capital sigma.
LowerRuns ==
    <<<<65,90,1,32>>, <<192,214,1,32>>, <<216,222,1,32>>, <<256,302,2,1>>,
      <<306,310,2,1>>, <<313,327,2,1>>, <<330,374,2,1>>, <<376,376,1,-121>>,
      <<377,381,2,1>>, <<385,385,1,210>>, <<386,388,2,1>>, <<390,390,1,206>>,
      <<391,391,1,1>>, <<393,394,1,205>>, <<395,395,1,1>>, <<398,398,1,79>>,
      <<399,399,1,202>>, <<400,400,1,203>>, <<401,401,1,1>>, <<403,403,1,205>>,
      <<404,404,1,207>>, <<406,406,1,211>>, <<407,407,1,209>>, <<408,408,1,1>>,
      <<412,412,1,211>>, <<413,413,1,213>>, <<415,415,1,214>>, <<416,420,2,1>>,
      <<422,422,1,218>>, <<423,423,1,1>>, <<425,425,1,218>>, <<428,428,1,1>>,
      <<430,430,1,218>>, <<431,431,1,1>>, <<433,434,1,217>>, <<435,437,2,1>>,
      <<439,439,1,219>>, <<440,440,1,1>>, <<444,444,1,1>>, <<452,452,1,2>>,
      <<453,453,1,1>>, <<455,455,1,2>>, <<456,456,1,1>>, <<458,458,1,2>>,
      <<459,475,2,1>>, <<478,494,2,1>>, <<497,497,1,2>>, <<498,500,2,1>>,
      <<502,502,1,-97>>, <<503,503,1,-56>>, <<504,542,2,1>>, <<544,544,1,-130>>,
      <<546,562,2,1>>, <<570,570,1,10795>>, <<571,571,1,1>>, <<573,573,1,-163>>,
      <<574,574,1,10792>>, <<577,577,1,1>>, <<579,579,1,-195>>, <<580,580,1,69>>,
      <<581,581,1,71>>, <<582,590,2,1>>, <<880,882,2,1>>, <<886,886,1,1>>,
      <<895,895,1,116>>, <<902,902,1,38>>, <<904,906,1,37>>, <<908,908,1,64>>,
      <<910,911,1,63>>, <<913,929,1,32>>, <<932,939,1,32>>, <<975,975,1,8>>,
      <<984,1006,2,1>>, <<1012,1012,1,-60>>, <<1015,1015,1,1>>, <<1017,1017,1,-7>>,
      <<1018,1018,1,1>>, <<1021,1023,1,-130>>, <<1024,1039,1,80>>, <<1040,1071,1,32>>,
      <<1120,1152,2,1>>, <<1162,1214,2,1>>, <<1216,1216,1,15>>, <<1217,1229,2,1>>,
      <<1232,1326,2,1>>, <<1329,1366,1,48>>, <<4256,4293,1,7264>>, <<4295,4295,1,7264>>,
      <<4301,4301,1,7264>>, <<5024,5103,1,38864>>, <<5104,5109,1,8>>,
      <<7312,7354,1,-3008>>, <<7357,7359,1,-3008>>, <<7680,7828,2,1>>,
      <<7838,7838,1,-7615>>, <<7840,7934,2,1>>, <<7944,7951,1,-8>>, <<7960,7965,1,-8>>,
      <<7976,7983,1,-8>>, <<7992,7999,1,-8>>, <<8008,8013,1,-8>>, <<8025,8031,2,-8>>,
      <<8040,8047,1,-8>>, <<8072,8079,1,-8>>, <<8088,8095,1,-8>>, <<8104,8111,1,-8>>,
      <<8120,8121,1,-8>>, <<8122,8123,1,-74>>, <<8124,8124,1,-9>>, <<8136,8139,1,-86>>,
      <<8140,8140,1,-9>>, <<8152,8153,1,-8>>, <<8154,8155,1,-100>>, <<8168,8169,1,-8>>,
      <<8170,8171,1,-112>>, <<8172,8172,1,-7>>, <<8184,8185,1,-128>>,
      <<8186,8187,1,-126>>, <<8188,8188,1,-9>>, <<8486,8486,1,-7517>>,
      <<8490,8490,1,-8383>>, <<8491,8491,1,-8262>>, <<8498,8498,1,28>>,
      <<8544,8559,1,16>>, <<8579,8579,1,1>>, <<9398,9423,1,26>>, <<11264,11311,1,48>>,
      <<11360,11360,1,1>>, <<11362,11362,1,-10743>>, <<11363,11363,1,-3814>>,
      <<11364,11364,1,-10727>>, <<11367,11371,2,1>>, <<11373,11373,1,-10780>>,
      <<11374,11374,1,-10749>>, <<11375,11375,1,-10783>>, <<11376,11376,1,-10782>>,
      <<11378,11378,1,1>>, <<11381,11381,1,1>>, <<11390,11391,1,-10815>>,
      <<11392,11490,2,1>>, <<11499,11501,2,1>>, <<11506,11506,1,1>>,
      <<42560,42604,2,1>>, <<42624,42650,2,1>>, <<42786,42798,2,1>>,
      <<42802,42862,2,1>>, <<42873,42875,2,1>>, <<42877,42877,1,-35332>>,
      <<42878,42886,2,1>>, <<42891,42891,1,1>>, <<42893,42893,1,-42280>>,
      <<42896,42898,2,1>>, <<42902,42920,2,1>>, <<42922,42922,1,-42308>>,
      <<42923,42923,1,-42319>>, <<42924,42924,1,-42315>>, <<42925,42925,1,-42305>>,
      <<42926,42926,1,-42308>>, <<42928,42928,1,-42258>>, <<42929,42929,1,-42282>>,
      <<42930,42930,1,-42261>>, <<42931,42931,1,928>>, <<42932,42946,2,1>>,
      <<42948,42948,1,-48>>, <<42949,42949,1,-42307>>, <<42950,42950,1,-35384>>,
      <<42951,42953,2,1>>, <<42960,42960,1,1>>, <<42966,42968,2,1>>,
      <<42997,42997,1,1>>, <<65313,65338,1,32>>, <<66560,66599,1,40>>,
      <<66736,66771,1,40>>, <<66928,66938,1,39>>, <<66940,66954,1,39>>,
      <<66956,66962,1,39>>, <<66964,66965,1,39>>, <<68736,68786,1,64>>,
      <<71840,71871,1,32>>, <<93760,93791,1,32>>, <<125184,125217,1,34>>>>

\* the ranges <<first, last>> of the cased characters that are not
\* case-ignorable
Cased ==
    <<<<65,90>>, <<97,122>>, <<170,170>>, <<181,181>>, <<186,186>>, <<192,214>>,
      <<216,246>>, <<248,442>>, <<444,447>>, <<452,659>>, <<661,687>>, <<880,883>>,
      <<886,887>>, <<891,893>>, <<895,895>>, <<902,902>>, <<904,906>>, <<908,908>>,
      <<910,929>>, <<931,1013>>, <<1015,1153>>, <<1162,1327>>, <<1329,1366>>,
      <<1376,1416>>, <<4256,4293>>, <<4295,4295>>, <<4301,4301>>, <<4304,4346>>,
      <<4349,4351>>, <<5024,5109>>, <<5112,5117>>, <<7296,7304>>, <<7312,7354>>,
      <<7357,7359>>, <<7424,7467>>, <<7531,7543>>, <<7545,7578>>, <<7680,7957>>,
      <<7960,7965>>, <<7968,8005>>, <<8008,8013>>, <<8016,8023>>, <<8025,8025>>,
      <<8027,8027>>, <<8029,8029>>, <<8031,8061>>, <<8064,8116>>, <<8118,8124>>,
      <<8126,8126>>, <<8130,8132>>, <<8134,8140>>, <<8144,8147>>, <<8150,8155>>,
      <<8160,8172>>, <<8178,8180>>, <<8182,8188>>, <<8450,8450>>, <<8455,8455>>,
      <<8458,8467>>, <<8469,8469>>, <<8473,8477>>, <<8484,8484>>, <<8486,8486>>,
      <<8488,8488>>, <<8490,8493>>, <<8495,8500>>, <<8505,8505>>, <<8508,8511>>,
      <<8517,8521>>, <<8526,8526>>, <<8544,8575>>, <<8579,8580>>, <<9398,9449>>,
      <<11264,11387>>, <<11390,11492>>, <<11499,11502>>, <<11506,11507>>,
      <<11520,11557>>, <<11559,11559>>, <<11565,11565>>, <<42560,42605>>,
      <<42624,42651>>, <<42786,42863>>, <<42865,42887>>, <<42891,42894>>,
      <<42896,42954>>, <<42960,42961>>, <<42963,42963>>, <<42965,42969>>,
      <<42997,42998>>, <<43002,43002>>, <<43824,43866>>, <<43872,43880>>,
      <<43888,43967>>, <<64256,64262>>, <<64275,64279>>, <<65313,65338>>,
      <<65345,65370>>, <<66560,66639>>, <<66736,66771>>, <<66776,66811>>,
      <<66928,66938>>, <<66940,66954>>, <<66956,66962>>, <<66964,66965>>,
      <<66967,66977>>, <<66979,66993>>, <<66995,67001>>, <<67003,67004>>,
      <<68736,68786>>, <<68800,68850>>, <<71840,71903>>, <<93760,93823>>,
      <<119808,119892>>, <<119894,119964>>, <<119966,119967>>, <<119970,119970>>,
      <<119973,119974>>, <<119977,119980>>, <<119982,119993>>, <<119995,119995>>,
      <<119997,120003>>, <<120005,120069>>, <<120071,120074>>, <<120077,120084>>,
      <<120086,120092>>, <<120094,120121>>, <<120123,120126>>, <<120128,120132>>,
      <<120134,120134>>, <<120138,120144>>, <<120146,120485>>, <<120488,120512>>,
      <<120514,120538>>, <<120540,120570>>, <<120572,120596>>, <<120598,120628>>,
      <<120630,120654>>, <<120656,120686>>, <<120688,120712>>, <<120714,120744>>,
      <<120746,120770>>, <<120772,120779>>, <<122624,122633>>, <<122635,122654>>,
      <<125184,125251>>, <<127280,127305>>, <<127312,127337>>, <<127344,127369>>>>

\* the ranges <<first, last>> of the case-ignorable characters
CaseIgnorable ==
    <<<<39,39>>, <<46,46>>, <<58,58>>, <<94,94>>, <<96,96>>, <<168,168>>, <<173,173>>,
      <<175,175>>, <<180,180>>, <<183,184>>, <<688,879>>, <<884,885>>, <<890,890>>,
      <<900,901>>, <<903,903>>, <<1155,1161>>, <<1369,1369>>, <<1375,1375>>,
      <<1425,1469>>, <<1471,1471>>, <<1473,1474>>, <<1476,1477>>, <<1479,1479>>,
      <<1524,1524>>, <<1536,1541>>, <<1552,1562>>, <<1564,1564>>, <<1600,1600>>,
      <<1611,1631>>, <<1648,1648>>, <<1750,1757>>, <<1759,1768>>, <<1770,1773>>,
      <<1807,1807>>, <<1809,1809>>, <<1840,1866>>, <<1958,1968>>, <<2027,2037>>,
      <<2042,2042>>, <<2045,2045>>, <<2070,2093>>, <<2137,2139>>, <<2184,2184>>,
      <<2192,2193>>, <<2200,2207>>, <<2249,2306>>, <<2362,2362>>, <<2364,2364>>,
      <<2369,2376>>, <<2381,2381>>, <<2385,2391>>, <<2402,2403>>, <<2417,2417>>,
      <<2433,2433>>, <<2492,2492>>, <<2497,2500>>, <<2509,2509>>, <<2530,2531>>,
      <<2558,2558>>, <<2561,2562>>, <<2620,2620>>, <<2625,2626>>, <<2631,2632>>,
      <<2635,2637>>, <<2641,2641>>, <<2672,2673>>, <<2677,2677>>, <<2689,2690>>,
      <<2748,2748>>, <<2753,2757>>, <<2759,2760>>, <<2765,2765>>, <<2786,2787>>,
      <<2810,2815>>, <<2817,2817>>, <<2876,2876>>, <<2879,2879>>, <<2881,2884>>,
      <<2893,2893>>, <<2901,2902>>, <<2914,2915>>, <<2946,2946>>, <<3008,3008>>,
      <<3021,3021>>, <<3072,3072>>, <<3076,3076>>, <<3132,3132>>, <<3134,3136>>,
      <<3142,3144>>, <<3146,3149>>, <<3157,3158>>, <<3170,3171>>, <<3201,3201>>,
      <<3260,3260>>, <<3263,3263>>, <<3270,3270>>, <<3276,3277>>, <<3298,3299>>,
      <<3328,3329>>, <<3387,3388>>, <<3393,3396>>, <<3405,3405>>, <<3426,3427>>,
      <<3457,3457>>, <<3530,3530>>, <<3538,3540>>, <<3542,3542>>, <<3633,3633>>,
      <<3636,3642>>, <<3654,3662>>, <<3761,3761>>, <<3764,3772>>, <<3782,3782>>,
      <<3784,3789>>, <<3864,3865>>, <<3893,3893>>, <<3895,3895>>, <<3897,3897>>,
      <<3953,3966>>, <<3968,3972>>, <<3974,3975>>, <<3981,3991>>, <<3993,4028>>,
      <<4038,4038>>, <<4141,4144>>, <<4146,4151>>, <<4153,4154>>, <<4157,4158>>,
      <<4184,4185>>, <<4190,4192>>, <<4209,4212>>, <<4226,4226>>, <<4229,4230>>,
      <<4237,4237>>, <<4253,4253>>, <<4348,4348>>, <<4957,4959>>, <<5906,5908>>,
      <<5938,5939>>, <<5970,5971>>, <<6002,6003>>, <<6068,6069>>, <<6071,6077>>,
      <<6086,6086>>, <<6089,6099>>, <<6103,6103>>, <<6109,6109>>, <<6155,6159>>,
      <<6211,6211>>, <<6277,6278>>, <<6313,6313>>, <<6432,6434>>, <<6439,6440>>,
      <<6450,6450>>, <<6457,6459>>, <<6679,6680>>, <<6683,6683>>, <<6742,6742>>,
      <<6744,6750>>, <<6752,6752>>, <<6754,6754>>, <<6757,6764>>, <<6771,6780>>,
      <<6783,6783>>, <<6823,6823>>, <<6832,6862>>, <<6912,6915>>, <<6964,6964>>,
      <<6966,6970>>, <<6972,6972>>, <<6978,6978>>, <<7019,7027>>, <<7040,7041>>,
      <<7074,7077>>, <<7080,7081>>, <<7083,7085>>, <<7142,7142>>, <<7144,7145>>,
      <<7149,7149>>, <<7151,7153>>, <<7212,7219>>, <<7222,7223>>, <<7288,7293>>,
      <<7376,7378>>, <<7380,7392>>, <<7394,7400>>, <<7405,7405>>, <<7412,7412>>,
      <<7416,7417>>, <<7468,7530>>, <<7544,7544>>, <<7579,7679>>, <<8125,8125>>,
      <<8127,8129>>, <<8141,8143>>, <<8157,8159>>, <<8173,8175>>, <<8189,8190>>,
      <<8203,8207>>, <<8216,8217>>, <<8228,8228>>, <<8231,8231>>, <<8234,8238>>,
      <<8288,8292>>, <<8294,8303>>, <<8305,8305>>, <<8319,8319>>, <<8336,8348>>,
      <<8400,8432>>, <<11388,11389>>, <<11503,11505>>, <<11631,11631>>, <<11647,11647>>,
      <<11744,11775>>, <<11823,11823>>, <<12293,12293>>, <<12330,12333>>,
      <<12337,12341>>, <<12347,12347>>, <<12441,12446>>, <<12540,12542>>,
      <<40981,40981>>, <<42232,42237>>, <<42508,42508>>, <<42607,42610>>,
      <<42612,42621>>, <<42623,42623>>, <<42652,42655>>, <<42736,42737>>,
      <<42752,42785>>, <<42864,42864>>, <<42888,42890>>, <<42994,42996>>,
      <<43000,43001>>, <<43010,43010>>, <<43014,43014>>, <<43019,43019>>,
      <<43045,43046>>, <<43052,43052>>, <<43204,43205>>, <<43232,43249>>,
      <<43263,43263>>, <<43302,43309>>, <<43335,43345>>, <<43392,43394>>,
      <<43443,43443>>, <<43446,43449>>, <<43452,43453>>, <<43471,43471>>,
      <<43493,43494>>, <<43561,43566>>, <<43569,43570>>, <<43573,43574>>,
      <<43587,43587>>, <<43596,43596>>, <<43632,43632>>, <<43644,43644>>,
      <<43696,43696>>, <<43698,43700>>, <<43703,43704>>, <<43710,43711>>,
      <<43713,43713>>, <<43741,43741>>, <<43756,43757>>, <<43763,43764>>,
      <<43766,43766>>, <<43867,43871>>, <<43881,43883>>, <<44005,44005>>,
      <<44008,44008>>, <<44013,44013>>, <<64286,64286>>, <<64434,64450>>,
      <<65024,65039>>, <<65043,65043>>, <<65056,65071>>, <<65106,65106>>,
      <<65109,65109>>, <<65279,65279>>, <<65287,65287>>, <<65294,65294>>,
      <<65306,65306>>, <<65342,65342>>, <<65344,65344>>, <<65392,65392>>,
      <<65438,65439>>, <<65507,65507>>, <<65529,65531>>, <<66045,66045>>,
      <<66272,66272>>, <<66422,66426>>, <<67456,67461>>, <<67463,67504>>,
      <<67506,67514>>, <<68097,68099>>, <<68101,68102>>, <<68108,68111>>,
      <<68152,68154>>, <<68159,68159>>, <<68325,68326>>, <<68900,68903>>,
      <<69291,69292>>, <<69446,69456>>, <<69506,69509>>, <<69633,69633>>,
      <<69688,69702>>, <<69744,69744>>, <<69747,69748>>, <<69759,69761>>,
      <<69811,69814>>, <<69817,69818>>, <<69821,69821>>, <<69826,69826>>,
      <<69837,69837>>, <<69888,69890>>, <<69927,69931>>, <<69933,69940>>,
      <<70003,70003>>, <<70016,70017>>, <<70070,70078>>, <<70089,70092>>,
      <<70095,70095>>, <<70191,70193>>, <<70196,70196>>, <<70198,70199>>,
      <<70206,70206>>, <<70367,70367>>, <<70371,70378>>, <<70400,70401>>,
      <<70459,70460>>, <<70464,70464>>, <<70502,70508>>, <<70512,70516>>,
      <<70712,70719>>, <<70722,70724>>, <<70726,70726>>, <<70750,70750>>,
      <<70835,70840>>, <<70842,70842>>, <<70847,70848>>, <<70850,70851>>,
      <<71090,71093>>, <<71100,71101>>, <<71103,71104>>, <<71132,71133>>,
      <<71219,71226>>, <<71229,71229>>, <<71231,71232>>, <<71339,71339>>,
      <<71341,71341>>, <<71344,71349>>, <<71351,71351>>, <<71453,71455>>,
      <<71458,71461>>, <<71463,71467>>, <<71727,71735>>, <<71737,71738>>,
      <<71995,71996>>, <<71998,71998>>, <<72003,72003>>, <<72148,72151>>,
      <<72154,72155>>, <<72160,72160>>, <<72193,72202>>, <<72243,72248>>,
      <<72251,72254>>, <<72263,72263>>, <<72273,72278>>, <<72281,72283>>,
      <<72330,72342>>, <<72344,72345>>, <<72752,72758>>, <<72760,72765>>,
      <<72767,72767>>, <<72850,72871>>, <<72874,72880>>, <<72882,72883>>,
      <<72885,72886>>, <<73009,73014>>, <<73018,73018>>, <<73020,73021>>,
      <<73023,73029>>, <<73031,73031>>, <<73104,73105>>, <<73109,73109>>,
      <<73111,73111>>, <<73459,73460>>, <<78896,78904>>, <<92912,92916>>,
      <<92976,92982>>, <<92992,92995>>, <<94031,94031>>, <<94095,94111>>,
      <<94176,94177>>, <<94179,94180>>, <<110576,110579>>, <<110581,110587>>,
      <<110589,110590>>, <<113821,113822>>, <<113824,113827>>, <<118528,118573>>,
      <<118576,118598>>, <<119143,119145>>, <<119155,119170>>, <<119173,119179>>,
      <<119210,119213>>, <<119362,119364>>, <<121344,121398>>, <<121403,121452>>,
      <<121461,121461>>, <<121476,121476>>, <<121499,121503>>, <<121505,121519>>,
      <<122880,122886>>, <<122888,122904>>, <<122907,122913>>, <<122915,122916>>,
      <<122918,122922>>, <<123184,123197>>, <<123566,123566>>, <<123628,123631>>,
      <<125136,125142>>, <<125252,125259>>, <<127995,127999>>, <<917505,917505>>,
      <<917536,917631>>, <<917760,917999>>>>

\* c lies in one of the ranges
InRanges(c, ranges) == \E k \in 1..Len(ranges) : ranges[k][1] <= c /\ c <= ranges[k][2]

\* lower case of one character as SQLite folds it: the 26 ASCII letters,
\* every other character unchanged
LowerChar(c) == IF c >= 65 /\ c <= 90 THEN c + (97 - 65) ELSE c

\* the capital sigma at index i is final: a cased character stands before
\* it and none after it, case-ignorable characters skipped on either side
FinalSigma(s, i) ==
    LET Solid(k) == ~InRanges(s[k], CaseIgnorable)
        before == {k \in 1..(i - 1) : Solid(k)}
        after == {k \in (i + 1)..Len(s) : Solid(k)}
    IN  /\ before /= {}
        /\ InRanges(s[CHOOSE k \in before : \A j \in before : j <= k], Cased)
        /\ after = {} \/ ~InRanges(s[FirstIndex(after)], Cased)

\* the lower case of the character at index i of s as Python folds it: one
\* character, or two for U+0130
PyLowerAt(s, i) ==
    LET InRun(c, k) == /\ LowerRuns[k][1] <= c
                       /\ c <= LowerRuns[k][2]
                       /\ (c - LowerRuns[k][1]) % LowerRuns[k][3] = 0
        Mapped(c) ==
            IF \E k \in 1..Len(LowerRuns) : InRun(c, k)
            THEN <<c + LowerRuns[CHOOSE k \in 1..Len(LowerRuns) : InRun(c, k)][4]>>
            ELSE <<c>>
    IN  IF s[i] < 128 THEN <<LowerChar(s[i])>>
        ELSE IF s[i] = 304 THEN <<105, 775>>
        ELSE IF s[i] = 931 THEN (IF FinalSigma(s, i) THEN <<962>> ELSE <<963>>)
        ELSE Mapped(s[i])

\* str.lower()
PyLower(s) ==
    IF \A k \in 1..Len(s) : s[k] < 128
    THEN [k \in 1..Len(s) |-> LowerChar(s[k])]
    ELSE Flatten([k \in 1..Len(s) |-> PyLowerAt(s, k)] \o <<>>)

\* LOWER(column)
Lower(s) == [i \in 1..Len(s) |-> LowerChar(s[i])]

\* the text up to its first NUL: LIKE reads its operands as C strings
CString(s) ==
    SubSeq(s, 1, (CHOOSE k \in 1..(Len(s) + 1) :
                     /\ k > Len(s) \/ s[k] = 0
                     /\ \A j \in 1..(k - 1) : s[j] /= 0) - 1)

\* the pattern characters p, none of them %, match the characters of text
\* after its first k: _ matches any one character, any other character
\* itself, an ASCII letter without regard to case
MatchAt(p, text, k) ==
    /\ k + Len(p) <= Len(text)
    /\ \A j \in 1..Len(p) :
          p[j] = 95 \/ LowerChar(p[j]) = LowerChar(text[k + j])

\* the index of the first % of the pattern, 0 when it has none
FirstPercent(pattern) == FirstIndex({k \in 1..Len(pattern) : pattern[k] = 37})

RECURSIVE LikeFrom(_, _, _)
\* the pattern, which starts with a %, matches the text after its first k
\* characters: the characters up to the next % match at the first place
\* they can and the rest of the pattern matches after them; the characters
\* after the last % match the end of the text
LikeFrom(pattern, text, k) ==
    LET Last(seg) == k + Len(seg) <= Len(text) /\ MatchAt(seg, text, Len(text) - Len(seg))
        Then(seg, rest, m) == m /= 0 /\ LikeFrom(rest, text, m - 1 + Len(seg))
        Inner(seg, rest) ==
            Then(seg, rest, FirstIndex({m \in (k + 1)..(Len(text) + 1) : MatchAt(seg, text, m - 1)}))
        After(rest, next) ==
            IF next = 0 THEN Last(rest)
            ELSE Inner(SubSeq(rest, 1, next - 1), SubSeq(rest, next, Len(rest)))
    IN  After(Tail(pattern), FirstPercent(Tail(pattern)))

\* text LIKE pattern on the C strings of its operands: % matches any run of
\* characters
LikeCStrings(pattern, text, first) ==
    IF first = 0 THEN Len(pattern) = Len(text) /\ MatchAt(pattern, text, 0)
    ELSE /\ MatchAt(SubSeq(pattern, 1, first - 1), text, 0)
         /\ LikeFrom(SubSeq(pattern, first, Len(pattern)), text, first - 1)

\* text LIKE pattern
Like(pattern, text) ==
    LikeCStrings(CString(pattern), CString(text), FirstPercent(CString(pattern)))

\* f"%{x.lower()}%"
LikeParam(x) == <<37>> \o PyLower(x) \o <<37>>

\* LOWER(column) LIKE ? for a column of the joined summary row; the columns
\* are NULL, and the comparison not true, when the place has no summary
VibeLike(rows, q) ==
    /\ rows /= <<>>
    /\ \/ Like(q, Lower(rows[1].summary))
       \/ Like(q, Lower(rows[1].mood_tags))
       \/ Like(q, Lower(rows[1].key_themes))

\* the WHERE clause of lines 316-334 on the row of place i
SearchMatches(pl, vs, i, query, city) ==
    /\ Truthy(city) => Like(LikeParam(city[1]), Lower(pl[i].city))
    /\ query /= <<>> =>
          \/ Like(LikeParam(query), Lower(pl[i].name))
          \/ Like(LikeParam(query), Lower(pl[i].category))
          \/ VibeLike(VibeRows(vs, i), LikeParam(query))

\* lines 311-342: places LEFT JOIN vibe_summaries, filtered
SearchRows(pl, vs, query, city) ==
    LET Keep(i) == SearchMatches(pl, vs, i, query, city)
        ids == SelectSeq([i \in 1..Len(pl) |-> i], Keep)
    IN  [k \in 1..Len(ids) |-> PlaceDict(pl, ids[k])]

\* GET /search/
search_places(query, city) ==
    /\ response' = Response("search_places", [query |-> query, city |-> city], 200,
                            [query |-> query,
                             results |-> SearchRows(places, vibe_summaries, query, city)],
                            "closed")
    /\ UNCHANGED <<places, reviews, vibe_summaries, tasks, upserts, api_key, gmaps>>

(***************************************************************************)
(* gmaps_scraper.scrape_gmaps.  What the browser does is the environment:  *)
(* each call of the driver returns, times out (TimeoutException) or fails  *)
(* on the network (WebDriverException).                                    *)
(***************************************************************************)
\* Number of reviews to attempt to scrape per Google Maps location.
GMAPS_REVIEWS_PER_LOCATION == 25

\* how a driver call or a wait ends
DriverOutcomes == {"ok", "timeout", "error"}

\* a review element of a page: whether it holds an author element and a
\* text element
ReviewElements == [author : BOOLEAN, text : BOOLEAN]

\* what one location page does: loading it, the wait for its title, the
\* wait for its reviews panel, and the review elements its page holds
LocationOutcomes ==
    [get : DriverOutcomes, title : DriverOutcomes, panel : DriverOutcomes,
     found : UNION {[1..n -> ReviewElements] : n \in 0..MaxLen}]

\* the run before setup_driver()
GmapsStart ==
    [pc |-> "start", todo |-> <<>>, idx |-> 1, results |-> <<>>, log |-> <<>>]

\* lines 159-176: of the first GMAPS_REVIEWS_PER_LOCATION review elements
\* of the page, one record for each that holds an author and a text; the
\* text of the k-th element of the page is ReviewText(k)
ReviewsData(url, found) ==
    LET Complete(k) == found[k].author /\ found[k].text
        kept == SelectSeq([k \in 1..(IF Len(found) < GMAPS_REVIEWS_PER_LOCATION
                                     THEN Len(found)
                                     ELSE GMAPS_REVIEWS_PER_LOCATION) |-> k],
                          Complete)
    IN  [n \in 1..Len(kept) |->
            [source |-> SourceGoogle, url |-> url, review_text |-> ReviewText(kept[n])]]

\* scrape_gmaps_location(driver, url, query): driver.get is outside every
\* try; the title wait catches TimeoutException and returns []; the panel
\* wait catches TimeoutException and goes on; nothing catches a
\* WebDriverException
scrape_gmaps_location(url, out) ==
    IF out.get = "timeout" THEN [raised |-> "TimeoutException", data |-> <<>>]
    ELSE IF out.get = "error" THEN [raised |-> "WebDriverException", data |-> <<>>]
    ELSE IF out.title = "timeout" THEN [raised |-> "none", data |-> <<>>]
    ELSE IF out.title = "error" THEN [raised |-> "WebDriverException", data |-> <<>>]
    ELSE IF out.panel = "error" THEN [raised |-> "WebDriverException", data |-> <<>>]
    ELSE [raised |-> "none", data |-> ReviewsData(url, out.found)]

\* the state of the run once the loop is at position idx: line 119 after
\* the last location
GmapsAt(g, idx) ==
    [g EXCEPT !.idx = idx,
              !.pc = IF idx > Len(g.todo) THEN "returned" ELSE "loop"]

\* len(urls[:limit]) for a list of n urls: a limit below zero counts from
\* the end of the list
SliceLen(n, limit) ==
    IF limit >= 0 THEN (IF n < limit THEN n ELSE limit)
    ELSE IF n + limit > 0 THEN n + limit ELSE 0

\* lines 87-107: the search page and its feed; a timeout of the feed wait
\* (or of the page load) is caught at line 113; the loop is over
\* urls[:limit], the n locations found cut by the slice
GmapsSearch(n, limit, outcome) ==
    /\ gmaps.pc = "start"
    /\ gmaps' = IF outcome = "timeout" THEN [gmaps EXCEPT !.pc = "returned"]
                ELSE IF outcome = "error" THEN [gmaps EXCEPT !.pc = "raised"]
                ELSE GmapsAt([gmaps EXCEPT
                                !.todo = [k \in 1..SliceLen(n, limit) |-> k]],
                             1)
    /\ UNCHANGED <<places, reviews, vibe_summaries, tasks, upserts, api_key, response>>

\* the loop body after scrape_gmaps_location ended as r: a TimeoutException
\* is caught by the except of line 113, which is outside the loop; any other
\* exception leaves scrape_gmaps through the finally clause
GmapsAfterLocation(g, r) ==
    IF r.raised = "TimeoutException" THEN [g EXCEPT !.pc = "returned"]
    ELSE IF r.raised = "WebDriverException" THEN [g EXCEPT !.pc = "raised"]
    ELSE GmapsAt([g EXCEPT !.results = @ \o r.data], g.idx + 1)

\* lines 107-111: one turn of the loop over urls[:limit]
GmapsLocation(out) ==
    /\ gmaps.pc = "loop"
    /\ gmaps' = GmapsAfterLocation(
                    [gmaps EXCEPT !.log = Append(@, out)],
                    scrape_gmaps_location(gmaps.todo[gmaps.idx], out))
    /\ UNCHANGED <<places, reviews, vibe_summaries, tasks, upserts, api_key, response>>

(***************************************************************************)
(* The service: the store starts empty (init_db creates the tables), the   *)
(* API key is set or not for the life of the process, requests arrive in   *)
(* any order and the event loop runs any task that can take a step.        *)
(***************************************************************************)
Init ==
    /\ places = <<>>
    /\ reviews = <<>>
    /\ vibe_summaries = <<>>
    /\ tasks = <<>>
    /\ upserts = <<>>
    /\ api_key \in BOOLEAN
    /\ response = NoResponse
    /\ gmaps = GmapsStart

Next ==
    \/ \E p \in PipelinePlaceInputs : create_place(p)
    \/ \E p \in PipelinePlaceInputs, g \in UrlInputs, t \in UrlInputs :
          create_place_and_scrape_reviews(p, g, t)
    \/ \E id \in PlaceIds, g \in UrlInputs, t \in UrlInputs : scrape_reviews(id, g, t)
    \/ \E id \in PlaceIds : get_place(id)
    \/ \E id \in PlaceIds : get_reviews(id)
    \/ \E id \in PlaceIds : get_vibe_summary(id)
    \/ \E i \in 1..Len(tasks) : RunTask(i)
    \/ \E i \in 1..Len(tasks), outcome \in ExtractorOutcomes(SourceGoogle, MaxLen) :
          GoogleDone(i, outcome)
    \/ \E i \in 1..Len(tasks), outcome \in ExtractorOutcomes(SourceTripAdvisor, MaxLen) :
          TripAdvisorDone(i, outcome)
    \/ \E i \in 1..Len(tasks), llm \in LLMOutcomes : SummarizerDone(i, llm)

Spec == Init /\ [][Next]_vars

(***************************************************************************)
(* The query handlers on every store: the places table is drawn from the   *)
(* stores POST /places/ can build, and GET /places/ is asked with every    *)
(* city and category.                                                      *)
(***************************************************************************)
InitPlaces ==
    /\ places \in UNION {[1..n -> PlaceInputs] : n \in 0..MaxRows}
    /\ reviews = <<>>
    /\ vibe_summaries = <<>>
    /\ tasks = <<>>
    /\ upserts = <<>>
    /\ api_key \in BOOLEAN
    /\ response = NoResponse
    /\ gmaps = GmapsStart

NextPlaces ==
    \E city \in CityInputs, category \in CategoryInputs : get_places(city, category)

SpecPlaces == InitPlaces /\ [][NextPlaces]_vars

(***************************************************************************)
(* The search handler on stores left by earlier runs of the service (the   *)
(* database file outlives the process): places as POST /places/ stores     *)
(* them, and for place 1 nothing, the review a run whose summary write     *)
(* failed left, or the review and the summary a run stored.                *)
(***************************************************************************)
\* the query parameter of GET /search/ (the last two: "\u00c9", "\u00e9")
SearchQueryInputs ==
    {<<>>, Text(<<"b">>), Text(<<"A">>), Text(<<"z">>), Text(<<"_">>), Text(<<"%">>),
     Text(<<"[">>), <<201>>, <<233>>}

\* the city parameter of GET /search/ (the last: "\u00dc")
SearchCityInputs == {None, Some(Text(<<"P">>)), Some(<<220>>)}

\* replies whose summary a run stored
StoredReplies == {ReplyGood, ReplyEscaped}

\* the review rows the run of place 1 committed before it summarized them
StoredReviews ==
    <<[place_id |-> 1, source |-> SourceGoogle, content |-> ReviewText(1)]>>

InitSearch ==
    /\ places \in UNION {[1..n -> PlaceInputs] : n \in 0..MaxRows}
    /\ vibe_summaries \in
          {<<>>} \cup {<<SummaryRow(1, Loads(r).val)>> : r \in StoredReplies}
    /\ reviews \in {<<>>, StoredReviews}
    /\ reviews /= <<>> => places /= <<>>
    /\ vibe_summaries /= <<>> => reviews /= <<>>
    /\ tasks = <<>>
    /\ upserts = <<>>
    /\ api_key \in BOOLEAN
    /\ response = NoResponse
    /\ gmaps = GmapsStart

NextSearch ==
    \E query \in SearchQueryInputs, city \in SearchCityInputs : search_places(query, city)

SpecSearch == InitSearch /\ [][NextSearch]_vars

(***************************************************************************)
(* Place creation with any body: from the empty store, POST /places/ and   *)
(* POST /scrape/place-and-reviews with every name, city and category, and  *)
(* the handlers that read the rows back.                                   *)
(***************************************************************************)
NextCreate ==
    \/ \E p \in PlaceInputs : create_place(p)
    \/ \E p \in PlaceInputs, g \in UrlInputs, t \in UrlInputs :
          create_place_and_scrape_reviews(p, g, t)
    \/ \E id \in PlaceIds : get_place(id)
    \/ \E city \in CityInputs, category \in CategoryInputs : get_places(city, category)

SpecCreate == Init /\ [][NextCreate]_vars

(***************************************************************************)
(* The scrape runs on a store of MaxRunPlaces places (each created by a    *)
(* POST /places/): POST /scrape/reviews for any of them and the steps of   *)
(* the runs, the extractors returning up to MaxRunLen texts each.          *)
(***************************************************************************)
\* what the chat-completion call of such a run yields: the reply asked for,
\* or an exception
RunLLMOutcomes ==
    { [raised |-> FALSE, text |-> ReplyGood], [raised |-> TRUE, text |-> ExceptionTimeout] }

InitRuns ==
    /\ places \in [1..MaxRunPlaces -> PipelinePlaceInputs]
    /\ reviews = <<>>
    /\ vibe_summaries = <<>>
    /\ tasks = <<>>
    /\ upserts = <<>>
    /\ api_key \in BOOLEAN
    /\ response = NoResponse
    /\ gmaps = GmapsStart

NextRuns ==
    \/ \E id \in 1..MaxRunPlaces, g \in UrlInputs, t \in UrlInputs : scrape_reviews(id, g, t)
    \/ \E i \in 1..Len(tasks) : RunTask(i)
    \/ \E i \in 1..Len(tasks), outcome \in ExtractorOutcomes(SourceGoogle, MaxRunLen) :
          GoogleDone(i, outcome)
    \/ \E i \in 1..Len(tasks), outcome \in ExtractorOutcomes(SourceTripAdvisor, MaxRunLen) :
          TripAdvisorDone(i, outcome)
    \/ \E i \in 1..Len(tasks), llm \in RunLLMOutcomes : SummarizerDone(i, llm)

SpecRuns == InitRuns /\ [][NextRuns]_vars

(***************************************************************************)
(* One run of the maps scraper, with any limit and any behaviour of the    *)
(* pages.                                                                  *)
(***************************************************************************)
\* the --limit argument: any int (argparse, type=int)
LimitInputs == (0 - MaxUrls)..MaxUrls

NextGmaps ==
    \/ \E n \in 0..MaxUrls, limit \in LimitInputs, outcome \in DriverOutcomes :
          GmapsSearch(n, limit, outcome)
    \/ \E out \in LocationOutcomes : GmapsLocation(out)

SpecGmaps == Init /\ [][NextGmaps]_vars

(***************************************************************************)
(* Properties.                                                             *)
(***************************************************************************)
\* the three keys of a vibe payload
VibeKeys == {KeySummary, KeyMoodTags, KeyKeyThemes}

\* the tasks of a place
TasksOf(id) == {i \in 1..Len(tasks) : tasks[i].place_id = id}

\* what summarize_reviews returned to task i, parsed
Reply(i) == Loads(tasks[i].summary_json[1])

\* the task whose summary write for the place was committed last, 0 if none
LastUpsert(id) ==
    LET ks == {k \in 1..Len(upserts) : tasks[upserts[k]].place_id = id}
    IN  IF ks = {} THEN 0
        ELSE upserts[CHOOSE k \in ks : \A m \in ks : m <= k]

\* the number of items of seq equal to x
Count(seq, x) ==
    LET Same(e) == e = x
    IN  Len(SelectSeq(seq, Same))

\* C1: whatever the reviews and the outcome of the LLM call, the text
\* summarize_reviews returns parses as a JSON object with exactly the keys
\* summary, mood_tags and key_themes.
C1_ReturnsVibeObject ==
    \A i \in 1..Len(tasks) :
        tasks[i].summary_json /= None =>
            /\ Reply(i).ok
            /\ Tag(Reply(i).val) = "obj"
            /\ Keys(Reply(i).val) = VibeKeys

\* C2: GET /places/{id}/vibe answers not-found for a place without a summary
\* row, and after a run for the place stored its summary it answers 200 with
\* that place_id and the summary, mood_tags and key_themes of the run's reply.
C2_VibeIsTheReply ==
    response.op = "get_vibe_summary" =>
        LET id == response.req.place_id
            i == LastUpsert(id)
        IN  /\ VibeRows(vibe_summaries, id) = <<>> => response.status = 404
            /\ i /= 0 =>
                 /\ response.status = 200
                 /\ response.body.place_id = id
                 /\ KeySummary \in Keys(Reply(i).val) =>
                      JStr(response.body.summary) = Get(Reply(i).val, KeySummary, JNull)
                 /\ KeyMoodTags \in Keys(Reply(i).val) =>
                      JStrList(response.body.mood_tags) = Get(Reply(i).val, KeyMoodTags, JNull)
                 /\ KeyKeyThemes \in Keys(Reply(i).val) =>
                      JStrList(response.body.key_themes) = Get(Reply(i).val, KeyKeyThemes, JNull)

\* C3: in every reachable state vibe_summaries holds at most one row per
\* place, and that row carries the summary, mood_tags and key_themes of the
\* run whose summary write came last: a later run replaces the row and adds
\* none.
C3_OneRowPerPlace ==
    \A id \in PlaceIds :
        /\ Len(VibeRows(vibe_summaries, id)) <= 1
        /\ LastUpsert(id) /= 0 =>
             VibeRows(vibe_summaries, id)
                 = << SummaryRow(id, Reply(LastUpsert(id)).val) >>

\* two runs with different replies wrote the summary of place 1, one row is
\* stored
C3_Witness ==
    /\ Len(upserts) >= 2
    /\ tasks[upserts[1]].place_id = 1
    /\ tasks[upserts[2]].place_id = 1
    /\ tasks[upserts[1]].summary_json /= tasks[upserts[2]].summary_json
    /\ Len(VibeRows(vibe_summaries, 1)) = 1

\* C4: once the runs of a place are past their commit, the review rows of
\* the place are, with multiplicity, the texts the extractors returned in
\* those runs.
C4_ReviewsAccumulate ==
    \A id \in PlaceIds :
        (\A i \in TasksOf(id) : tasks[i].pc \in {"summarize", "done"}) =>
            \A x \in {ExtractorText(s, n) : s \in {SourceGoogle, SourceTripAdvisor},
                                             n \in 1..(MaxLen + 1)} :
                Count([k \in 1..Len(GetReviewsRows(reviews, id)) |->
                          GetReviewsRows(reviews, id)[k].content], x)
                  = Count(Flatten([i \in 1..Len(tasks) |->
                              IF tasks[i].place_id = id
                              THEN tasks[i].g_ret \o tasks[i].t_ret ELSE <<>>]), x)

\* C5: POST /scrape/reviews for a place_id that matches no row of places
\* answers 404, enqueues no task and leaves places, reviews and
\* vibe_summaries unchanged.
C5_ScrapeMissingPlace ==
    [][ (response'.op = "scrape_reviews"
            /\ ~PlaceExists(places, response'.req.place_id))
        => /\ response'.status = 404
           /\ tasks' = tasks
           /\ places' = places
           /\ reviews' = reviews
           /\ vibe_summaries' = vibe_summaries ]_vars

\* POST /scrape/reviews for a missing place was answered 404 while a place
\* and a task exist
C5_Witness ==
    /\ response.op = "scrape_reviews"
    /\ ~PlaceExists(places, response.req.place_id)
    /\ response.status = 404
    /\ places /= <<>>
    /\ tasks /= <<>>

\* C6: GET /places/{id}, GET /places/{id}/reviews and GET /places/{id}/vibe
\* answer not-found whenever no place has that id.
C6_ReadsOfMissingPlace ==
    (response.op \in {"get_place", "get_reviews", "get_vibe_summary"}
        /\ ~PlaceExists(places, response.req.place_id))
    => response.status = 404

\* C7: in a run given both URLs, when one extractor raised and the other
\* returned, every review the other returned was inserted (and is committed
\* once the run is past its commit) and the summarizer ran over them.
C7_OtherSourceStillStored ==
    \A i \in 1..Len(tasks) :
        LET t == tasks[i]
        IN  (/\ Truthy(t.google_maps_url) /\ Truthy(t.tripadvisor_url)
             /\ t.pc \in {"summarize", "done"}
             /\ {t.g_out, t.t_out} = {"raised", "returned"})
            => /\ t.all_reviews = t.g_ret \o t.t_ret
               /\ (t.g_ret \o t.t_ret /= <<>> /\ t.pc = "done")
                     => t.summary_json /= None

\* C8: the connection a handler or a task opened is closed once the handler
\* answered or the task finished.
C8_ConnectionsClosed ==
    /\ response.op /= "none" => response.conn = "closed"
    /\ \A i \in 1..Len(tasks) : tasks[i].pc = "done" => tasks[i].conn = "closed"

\* C9: with tasks of one place interleaved, no task's summary write fails on
\* the store, every task that stored reviews and got a storable reply has
\* its write committed, and the stored summary is the one written last.
C9_LastWriteWins ==
    /\ \A i \in 1..Len(tasks) :
          /\ tasks[i].error /= "OperationalError"
          /\ (tasks[i].pc = "done" /\ tasks[i].summary_json /= None
                /\ tasks[i].error \notin {"JSONDecodeError", "ValueError", "AttributeError",
                                          "BindingError", "OverflowError",
                                          "UnicodeEncodeError", "IntegrityError"})
             => \E k \in 1..Len(upserts) : upserts[k] = i
    /\ \A id \in PlaceIds :
          LastUpsert(id) /= 0 =>
              \E k \in 1..Len(vibe_summaries) :
                  vibe_summaries[k] = SummaryRow(id, Reply(LastUpsert(id)).val)

\* the places whose city is x, as GET /places/ returns them
PlacesOfCity(x) ==
    LET InCity(i) == places[i].city = x
        ids == SelectSeq([i \in 1..Len(places) |-> i], InCity)
    IN  [k \in 1..Len(ids) |-> PlaceDict(places, ids[k])]

\* C10 as stated: for every value X of the city parameter, the empty string
\* included, GET /places/?city=X returns only places whose city is X, and
\* all of them when no category is given.
C10_CityFilterAnyValue ==
    (response.op = "get_places" /\ response.req.city /= None) =>
        /\ \A k \in 1..Len(response.body) :
              response.body[k].city = response.req.city[1]
        /\ response.req.category = None =>
              response.body = PlacesOfCity(response.req.city[1])

\* C10 amended: for every non-empty value X of the city parameter,
\* GET /places/?city=X returns only places whose city is exactly X, and all
\* of them when no category is given; with an empty city and no category it
\* returns every place.
C10_CityFilterNonEmpty ==
    response.op = "get_places" =>
        /\ Truthy(response.req.city) =>
              /\ \A k \in 1..Len(response.body) :
                    response.body[k].city = response.req.city[1]
              /\ response.req.category = None =>
                    response.body = PlacesOfCity(response.req.city[1])
        /\ (response.req.city = Some(<<>>) /\ response.req.category = None) =>
              response.body = [i \in 1..Len(places) |-> PlaceDict(places, i)]

\* a query with a non-empty city returned some places and left others out
C10_Witness ==
    /\ response.op = "get_places"
    /\ Truthy(response.req.city)
    /\ response.req.category = None
    /\ response.body /= <<>>
    /\ Len(response.body) < Len(places)

\* y occurs in text as a run of consecutive characters, ignoring case
Occurs(y, text) ==
    \E k \in 0..Len(text) :
        /\ k + Len(y) <= Len(text)
        /\ PyLower(SubSeq(text, k + 1, k + Len(y))) = PyLower(y)

\* the items of a stored JSON list of str (mood_tags, key_themes)
StoredItems(text) ==
    IF Loads(text).ok /\ IsStrList(Loads(text).val)
    THEN {Payload(Loads(text).val[2][n]) : n \in 1..Len(Loads(text).val[2])}
    ELSE {}

\* y occurs in the summary, a mood tag or a key theme of the place
OccursInVibe(y, rows) ==
    /\ rows /= <<>>
    /\ \/ Occurs(y, rows[1].summary)
       \/ \E tag \in StoredItems(rows[1].mood_tags) : Occurs(y, tag)
       \/ \E theme \in StoredItems(rows[1].key_themes) : Occurs(y, theme)

\* C11: for every store and every query Y (empty, or holding % or _),
\* GET /search/?query=Y returns only places in whose name, category,
\* summary, mood tags or key themes Y occurs ignoring case.
C11_SearchReturnsOnlyMatches ==
    response.op = "search_places" =>
        \A k \in 1..Len(response.body.results) :
            \/ Occurs(response.req.query, response.body.results[k].name)
            \/ Occurs(response.req.query, response.body.results[k].category)
            \/ OccursInVibe(response.req.query,
                            VibeRows(vibe_summaries, response.body.results[k].id))

\* C12: after any sequence of POST /places/ and POST /scrape/place-and-reviews
\* requests, every row of places has an id no other row has, and a
\* non-empty name, city and category.
C12_PlaceRowsValid ==
    \A i \in 1..Len(places) :
        /\ \A j \in 1..Len(places) :
              PlaceDict(places, i).id = PlaceDict(places, j).id => i = j
        /\ places[i].name /= <<>>
        /\ places[i].city /= <<>>
        /\ places[i].category /= <<>>

\* the step in which task i calls summarize_reviews
InvokesSummarizer(i) ==
    tasks[i].passed = None /\ tasks'[i].passed /= None

\* the review rows the step commits
CommittedRows == SubSeq(reviews', Len(reviews) + 1, Len(reviews'))

\* the texts of review rows
Contents(rows) == [k \in 1..Len(rows) |-> rows[k].content]

\* two lists hold the same items, each as many times
SameItems(a, b) ==
    /\ Len(a) = Len(b)
    /\ \A k \in 1..Len(a) : Count(a, a[k]) = Count(b, a[k])

\* C13 as stated: the list a run passes to the summarizer is every review
\* text stored for the place at that moment, earlier runs' texts included.
C13_PassesAllStoredTexts ==
    [][ \A i \in 1..Len(tasks) :
          InvokesSummarizer(i) =>
            tasks'[i].passed[1]
              = Contents(GetReviewsRows(reviews', tasks[i].place_id)) ]_vars

\* C13 amended: the list a run passes to the summarizer holds the texts of
\* the review rows this run itself inserted for its place, one entry for
\* each row, and no text that an earlier run stored.
C13_PassesRunTexts ==
    [][ \A i \in 1..Len(tasks) :
          InvokesSummarizer(i) =>
            /\ SameItems(tasks'[i].passed[1], Contents(CommittedRows))
            /\ \A k \in 1..Len(CommittedRows) :
                  CommittedRows[k].place_id = tasks[i].place_id ]_vars

\* a run called the summarizer with the texts of both sources, two of
\* Google Maps among them, after an earlier run had stored its own texts for
\* the same place: the list is shorter than the rows stored for the place
C13_Witness ==
    \E i, j \in 1..Len(tasks) :
        /\ i /= j
        /\ tasks[i].place_id = tasks[j].place_id
        /\ tasks[j].pc = "done" /\ tasks[j].all_reviews /= <<>>
        /\ tasks[i].passed /= None
        /\ Count(tasks[i].passed[1], ReviewText(1)) = 1
        /\ Count(tasks[i].passed[1], ReviewText(2)) = 1
        /\ Count(tasks[i].passed[1], TripAdvisorText(1)) = 1
        /\ Len(tasks[i].passed[1]) < Len(GetReviewsRows(reviews, tasks[i].place_id))

\* no call for the location timed out or failed on the network
LocationDidNotFail(out) ==
    out.get = "ok" /\ out.title = "ok" /\ out.panel = "ok"

\* C14: an error on one location (page load, title wait, panel wait) is
\* caught for that location: scrape_gmaps does not raise, its loop visits
\* every location up to the limit, and it returns the records of every
\* location that did not fail.
C14_LocationErrorsSkipOnlyThatLocation ==
    gmaps.log /= <<>> =>
        /\ gmaps.pc /= "raised"
        /\ gmaps.pc = "returned" =>
              /\ Len(gmaps.log) = Len(gmaps.todo)
              /\ \A k \in 1..Len(gmaps.log) :
                    LocationDidNotFail(gmaps.log[k]) =>
                        \A n \in 1..Len(ReviewsData(gmaps.todo[k], gmaps.log[k].found)) :
                            \E m \in 1..Len(gmaps.results) :
                                gmaps.results[m] = ReviewsData(gmaps.todo[k], gmaps.log[k].found)[n]

\* C15: after every step of the service each row of reviews (committed or
\* in an open transaction) and each row of vibe_summaries names an existing
\* place, and the rows of places that existed are still there, unchanged.
C15_ReferentialIntegrity ==
    [][ /\ \A k \in 1..Len(reviews') : PlaceExists(places', reviews'[k].place_id)
        /\ \A i \in 1..Len(tasks') :
              \A k \in 1..Len(tasks'[i].pending) :
                  PlaceExists(places', tasks'[i].pending[k].place_id)
        /\ \A k \in 1..Len(vibe_summaries') :
              PlaceExists(places', vibe_summaries'[k].place_id)
        /\ Len(places') >= Len(places)
        /\ \A i \in 1..Len(places) : places'[i] = places[i] ]_vars

\* review rows and a summary row are stored for place 1 after two runs, one
\* of them started by POST /scrape/reviews, and a request naming the
\* missing place 2 was just answered
C15_Witness ==
    /\ reviews /= <<>>
    /\ vibe_summaries /= <<>>
    /\ Len(tasks) = 2
    /\ response.op \in {"scrape_reviews", "get_reviews"}
    /\ ~PlaceExists(places, response.req.place_id)

====
